---- MODULE Spec2Model ----
(***************************************************************************)
(* Model of the axeos-dashboard runtime: the aggregate fan-out of          *)
(* HandleSystemsInfo / FetchAllCryptoNodes, the configuration Manager,     *)
(* the bootstrap/normal dynamicHandler and the collection scheduler.       *)
(* Each component has its own specification over the shared variables;     *)
(* a component that a specification does not exercise stays in its         *)
(* initial state.                                                          *)
(***************************************************************************)
EXTENDS Integers, Sequences, FiniteSets, TLC

NULL == "nil"

\* ------------------------------------------------------------------------
\* Bounds
\* ------------------------------------------------------------------------
\* most maps in one AxeosInstances / MiningCoreURL list
MaxMaps == 2
\* most peers (map entries, nodes) in one fan-out round
MaxPeers == 3
\* most LoadConfig / UpdateConfig calls started, over all process lives
MaxConfigOps == 2
\* most process restarts of the configuration store
MaxRestarts == 1
\* requests the gate serves
MaxReqs == 2
\* Start and Stop calls on the scheduler
MaxSchedCalls == 3
\* ticks a task's ticker delivers in one run
MaxTicks == 1

\* ------------------------------------------------------------------------
\* Variables
\* ------------------------------------------------------------------------
VARIABLES
    \* --- fan-out round (handlers/systems.go, services crypto node) ---
    fanClass,       \* which peer class this round serves
    fanCfg,         \* the configured peer list of that class
    fanPc,          \* position of the request handler
    spawned,        \* peers whose goroutine has been started
    gState,         \* peer -> state of its goroutine
    wg,             \* sync.WaitGroup counter of the round
    chan,           \* buffered result channel (FIFO of outcomes)
    chanClosed,     \* close(chan) has happened
    closerPc,       \* the goroutine running wg.Wait(); close(chan)
    results,        \* allMinerData / MiningCoreData / result
    httpStatus,     \* status written by the aggregate endpoint, 0 = none
    crashed,        \* an unrecovered panic ended the process
    \* --- configuration Manager (internal/config/config.go) ---
    file,           \* config.json on disk
    m_config,       \* Manager.config: address of the current *Config, or nil
    heap,           \* address -> the Config struct there, or a free cell
    mu,             \* Manager.mu: "free" or the thread holding the write lock
    cth,            \* thread -> its call in progress and locals
    opsLeft,        \* LoadConfig / UpdateConfig calls that may still start
    restarts,       \* process restarts so far
    lastWriter,     \* the thread whose write to the file is the latest
    durable,        \* patch of the last successful UpdateConfig whose write
                    \* is still the latest write to the file, or NoPatch
    \* --- bootstrap/normal gate (dynamicHandler, cmd/server main) ---
    accessFile,     \* access.json on disk
    jwtFile,        \* jsonWebTokenKey.json on disk
    isBootstrapMode,\* dynamicHandler.isBootstrapMode, as memory holds it
    normalHandler,  \* dynamicHandler.normalHandler, as memory holds it
    jwtService,     \* auth.jwtService
    req,            \* request -> position and locals of its ServeHTTP
    \* --- collection scheduler (internal/scheduler) ---
    sconf,          \* what config.json says about collection
    s_cancel,       \* Manager.cancel: nil or the CancelFunc of the run
    ctxDone,        \* the run's context has been cancelled
    s_tasks,        \* Manager.tasks
    s_wg,           \* Manager.wg
    s_mu,           \* Manager.mu: "free" or the caller holding it
    sc,             \* caller -> its Start / Stop call in progress
    gr,             \* task -> its runTask goroutine
    sink,           \* peer -> records inserted into the metrics database
    callsLeft       \* Start / Stop calls that may still begin

fanVars == <<fanClass, fanCfg, fanPc, spawned, gState, wg, chan, chanClosed,
             closerPc, results, httpStatus, crashed>>

cfgVars == <<file, m_config, heap, mu, cth, opsLeft, restarts, lastWriter, durable>>

gateVars == <<accessFile, jwtFile, isBootstrapMode, normalHandler, jwtService, req>>

schedVars == <<sconf, s_cancel, ctxDone, s_tasks, s_wg, s_mu, sc, gr, sink, callsLeft>>

\* The router and the requests it serves
VARIABLES
    routerCfg,      \* the *Config SetupRouter was given and its handlers captured
    hreq            \* the decision of the request served last

hotVars == <<routerCfg, hreq>>

\* The setup form's submissions
VARIABLES
    sub             \* submission -> position and locals of its HandleBootstrapSubmit

bootVars == <<sub>>

vars == <<fanVars, cfgVars, gateVars, schedVars, hotVars, bootVars>>

\* what the actions of one component leave alone
othersFan == <<cfgVars, gateVars, schedVars, hotVars, bootVars>>
othersCfg == <<fanVars, gateVars, schedVars, hotVars, bootVars>>
othersGate == <<fanVars, schedVars, mu, cth, opsLeft, restarts, lastWriter, durable, hreq,
                sub>>
othersSched == <<fanVars, cfgVars, gateVars, hotVars, bootVars>>

\* ------------------------------------------------------------------------
\* Fan-out: configuration shapes
\* ------------------------------------------------------------------------
PeerNames == {"a", "b"}
NodeNames == {"", "a"}
NodeIds == <<"n1", "n2", "n3", "n4">>
Classes == {"devices", "pools", "nodes"}

RECURSIVE SeqSum(_)
SeqSum(s) == IF s = <<>> THEN 0 ELSE Cardinality(Head(s)) + SeqSum(Tail(s))

SeqsUpTo(S, n) == UNION {[1..k -> S] : k \in 0..n}

\* cfg.AxeosInstances / cfg.MiningCoreURL : []map[string]string, each map
\* represented by its key set (the URL plays no part in the mechanics)
MapListConfigs == {c \in SeqsUpTo(SUBSET PeerNames, MaxMaps) : SeqSum(c) <= MaxPeers}

\* nodes parsed from cfg.CryptoNodes : []NodeConfig, NodeID fixed by position
NodeListConfigs == {[i \in 1..Len(c) |-> [NodeName |-> c[i], NodeID |-> NodeIds[i]]] :
                       c \in SeqsUpTo(NodeNames, MaxPeers)}

\* one goroutine is spawned per peer: per map entry, or per node
PeersOf(cls, cfg) ==
    IF cls = "nodes" THEN DOMAIN cfg
    ELSE {<<i, n>> : i \in DOMAIN cfg, n \in PeerNames} \cap
         {p \in (DOMAIN cfg) \X PeerNames : p[2] \in cfg[p[1]]}

\* the name a peer is configured under
PeerLabel(cls, cfg, p) ==
    IF cls = "nodes"
    THEN IF cfg[p].NodeName = "" THEN cfg[p].NodeID ELSE cfg[p].NodeName
    ELSE p[2]

\* make(chan ..., len(cfg.AxeosInstances)) / len(cfg.MiningCoreURL) / len(nodes)
ChanCap(cls, cfg) == Len(cfg)

\* ------------------------------------------------------------------------
\* Fan-out: what one peer answers and the outcome built from it
\* ------------------------------------------------------------------------
\* neterr: http.Get fails; status500: non-200 status; badjson: body does not
\* decode into a JSON object; null: the body is the JSON literal null, which
\* decodes without error into a nil map; ok: a JSON object
HttpAnswers == {"neterr", "status500", "badjson", "null", "ok"}
FailedAnswers == {"neterr", "status500", "badjson"}

\* the four RPC sub-calls of a node, in the order their errors are reported
SubCalls == <<"blockchainInfo", "networkTotals", "balance", "networkInfo">>
SubCallSet == {SubCalls[i] : i \in DOMAIN SubCalls}
\* a node's answer is the set of its sub-calls that failed: none, one, two, all
NodeAnswers == {{}, {"blockchainInfo"}, {"networkTotals", "networkInfo"}, SubCallSet}

AnswersOf(cls) == IF cls = "nodes" THEN NodeAnswers ELSE HttpAnswers

RECURSIVE ErrMsg(_, _)
ErrMsg(failed, i) ==
    IF i > Len(SubCalls) THEN <<>>
    ELSE (IF SubCalls[i] \in failed THEN <<SubCalls[i]>> ELSE <<>>) \o ErrMsg(failed, i + 1)

\* fetchCryptoNodeData that keeps the payloads of the sub-calls that
\* succeeded beside the error
fetchCryptoNodeData_Partial(label, failed) ==
    IF failed # {}
    THEN [id |-> label, status |-> "Error", message |-> ErrMsg(failed, 1),
          payload |-> SubCallSet \ failed]
    ELSE [id |-> label, status |-> "online", message |-> <<>>, payload |-> SubCallSet]

\* fetchCryptoNodeData: Error with the concatenated messages when any
\* sub-call failed, all four payloads otherwise
fetchCryptoNodeData(label, failed) ==
    IF failed # {}
    THEN [id |-> label, status |-> "Error", message |-> ErrMsg(failed, 1), payload |-> {}]
    ELSE [id |-> label, status |-> "online", message |-> <<>>, payload |-> SubCallSet]

\* DeviceOutcome without the resp.StatusCode check of systems.go 73
DeviceOutcome_NoStatusCheck(label, ans) ==
    CASE ans \in {"neterr", "badjson"} ->
            [id |-> label, status |-> "Error", message |-> <<ans>>, payload |-> {}]
      [] ans = "null" ->
            [id |-> label, status |-> "panic", message |-> <<>>, payload |-> {}]
      [] OTHER -> [id |-> label, status |-> "", message |-> <<>>, payload |-> {"data"}]

\* the goroutine body of the device round (systems.go 57-98) up to its send;
\* status "panic" stands for the assignment data["id"] = name on a nil map,
\* which no outcome follows
DeviceOutcome(label, ans) ==
    CASE ans \in FailedAnswers ->
            [id |-> label, status |-> "Error", message |-> <<ans>>, payload |-> {}]
      [] ans = "null" ->
            [id |-> label, status |-> "panic", message |-> <<>>, payload |-> {}]
      [] OTHER -> [id |-> label, status |-> "", message |-> <<>>, payload |-> {"data"}]

\* the goroutine body of the pool round (systems.go 135-188); a nil map is
\* only read there, so a null body yields an OK outcome with no pools
PoolOutcome(label, ans) ==
    CASE ans \in FailedAnswers ->
            [id |-> label, status |-> "Error", message |-> <<ans>>, payload |-> {}]
      [] ans = "null" -> [id |-> label, status |-> "OK", message |-> <<>>, payload |-> {}]
      [] OTHER -> [id |-> label, status |-> "OK", message |-> <<>>, payload |-> {"pools"}]

OutcomeOf(cls, label, ans) ==
    CASE cls = "devices" -> DeviceOutcome(label, ans)
      [] cls = "pools" -> PoolOutcome(label, ans)
      [] OTHER -> fetchCryptoNodeData(label, ans)

\* ------------------------------------------------------------------------
\* Fan-out: the round
\* ------------------------------------------------------------------------
FanPeers == PeersOf(fanClass, fanCfg)

FanInit ==
    /\ fanClass \in Classes
    /\ fanCfg \in (IF fanClass = "nodes" THEN NodeListConfigs ELSE MapListConfigs)
    /\ fanPc = "spawn"
    /\ spawned = {}
    /\ gState = [p \in PeersOf(fanClass, fanCfg) |->
                   [pc |-> "none", ans |-> IF fanClass = "nodes" THEN {} ELSE ""]]
    /\ wg = 0
    /\ chan = <<>>
    /\ chanClosed = FALSE
    /\ closerPc = "none"
    /\ results = <<>>
    /\ httpStatus = 0
    /\ crashed = FALSE

\* the fan-out of a specification that does not exercise it
FanIdle ==
    /\ fanClass = "devices"
    /\ fanCfg = <<>>
    /\ fanPc = "spawn"
    /\ spawned = {}
    /\ gState = <<>>
    /\ wg = 0
    /\ chan = <<>>
    /\ chanClosed = FALSE
    /\ closerPc = "none"
    /\ results = <<>>
    /\ httpStatus = 0
    /\ crashed = FALSE

\* the next peer the spawning loop reaches: lists are walked in order, the
\* entries of one map in Go's unspecified map order
NextToSpawn ==
    IF fanClass = "nodes"
    THEN {p \in FanPeers : p \notin spawned /\ \A q \in FanPeers : q < p => q \in spawned}
    ELSE {p \in FanPeers : p \notin spawned /\
                           \A q \in FanPeers : q[1] < p[1] => q \in spawned}

\* FetchAllCryptoNodes returns an empty list before creating the channel
\* when no node is configured (part_010 224-226)
FanEarlyReturn ==
    /\ ~crashed
    /\ UNCHANGED othersFan
    /\ fanPc = "spawn"
    /\ fanClass = "nodes"
    /\ FanPeers = {}
    /\ fanPc' = "respond"
    /\ UNCHANGED <<fanClass, fanCfg, spawned, gState, wg, chan, chanClosed,
                   closerPc, results, httpStatus, crashed>>

\* wg.Add(1); go func(name, url) {...}(instanceName, instanceURL)
FanSpawn(p) ==
    /\ ~crashed
    /\ UNCHANGED othersFan
    /\ fanPc = "spawn"
    /\ p \in NextToSpawn
    /\ spawned' = spawned \cup {p}
    /\ wg' = wg + 1
    /\ gState' = [gState EXCEPT ![p].pc = "running"]
    /\ UNCHANGED <<fanClass, fanCfg, fanPc, chan, chanClosed, closerPc,
                   results, httpStatus, crashed>>

\* the loop is over: devices and pools start go func(){wg.Wait(); close(ch)}()
\* and range over the channel; nodes call wg.Wait() themselves
FanSpawnDone ==
    /\ ~crashed
    /\ UNCHANGED othersFan
    /\ fanPc = "spawn"
    /\ spawned = FanPeers
    /\ ~(fanClass = "nodes" /\ FanPeers = {})
    /\ IF fanClass = "nodes"
       THEN fanPc' = "wait" /\ UNCHANGED closerPc
       ELSE fanPc' = "collect" /\ closerPc' = "wait"
    /\ UNCHANGED <<fanClass, fanCfg, spawned, gState, wg, chan, chanClosed,
                   results, httpStatus, crashed>>

\* the goroutine of one peer: the call to the peer, the outcome built from
\* its answer, ch <- outcome (blocks while the buffer is full; panics on a
\* closed channel) and the deferred wg.Done()
FanRun(p, ans) ==
    /\ ~crashed
    /\ UNCHANGED othersFan
    /\ gState[p].pc = "running"
    /\ ans \in AnswersOf(fanClass)
    /\ LET out == OutcomeOf(fanClass, PeerLabel(fanClass, fanCfg, p), ans)
       IN IF out.status = "panic" \/ chanClosed
          THEN /\ crashed' = TRUE
               /\ gState' = [gState EXCEPT ![p] = [pc |-> "panicked", ans |-> ans]]
               /\ UNCHANGED <<chan, wg>>
          ELSE /\ Len(chan) < ChanCap(fanClass, fanCfg)
               /\ chan' = Append(chan, out)
               /\ wg' = wg - 1
               /\ gState' = [gState EXCEPT ![p] = [pc |-> "done", ans |-> ans]]
               /\ UNCHANGED crashed
    /\ UNCHANGED <<fanClass, fanCfg, fanPc, spawned, chanClosed, closerPc,
                   results, httpStatus>>

\* go func() { wg.Wait(); close(minerChan) }()
FanCloser ==
    /\ ~crashed
    /\ UNCHANGED othersFan
    /\ closerPc = "wait"
    /\ wg = 0
    /\ chanClosed' = TRUE
    /\ closerPc' = "done"
    /\ UNCHANGED <<fanClass, fanCfg, fanPc, spawned, gState, wg, chan,
                   results, httpStatus, crashed>>

\* nodes: wg.Wait(); close(nodeDataChan) in the caller
FanWaitClose ==
    /\ ~crashed
    /\ UNCHANGED othersFan
    /\ fanPc = "wait"
    /\ wg = 0
    /\ chanClosed' = TRUE
    /\ fanPc' = "collect"
    /\ UNCHANGED <<fanClass, fanCfg, spawned, gState, wg, chan, closerPc,
                   results, httpStatus, crashed>>

\* for data := range ch { results = append(results, data) }
FanCollect ==
    /\ ~crashed
    /\ UNCHANGED othersFan
    /\ fanPc = "collect"
    /\ chan # <<>>
    /\ results' = Append(results, Head(chan))
    /\ chan' = Tail(chan)
    /\ UNCHANGED <<fanClass, fanCfg, fanPc, spawned, gState, wg, chanClosed,
                   closerPc, httpStatus, crashed>>

\* the range loop ends when the channel is closed and drained
FanCollectEnd ==
    /\ ~crashed
    /\ UNCHANGED othersFan
    /\ fanPc = "collect"
    /\ chan = <<>>
    /\ chanClosed
    /\ fanPc' = "respond"
    /\ UNCHANGED <<fanClass, fanCfg, spawned, gState, wg, chan, chanClosed,
                   closerPc, results, httpStatus, crashed>>

\* w.WriteHeader(http.StatusOK); encoder.Encode(response)
FanRespond ==
    /\ ~crashed
    /\ UNCHANGED othersFan
    /\ fanPc = "respond"
    /\ httpStatus' = 200
    /\ fanPc' = "done"
    /\ UNCHANGED <<fanClass, fanCfg, spawned, gState, wg, chan, chanClosed,
                   closerPc, results, crashed>>

FanNext ==
    \/ FanEarlyReturn
    \/ \E p \in FanPeers : FanSpawn(p)
    \/ FanSpawnDone
    \/ \E p \in FanPeers, ans \in AnswersOf(fanClass) : FanRun(p, ans)
    \/ FanCloser
    \/ FanWaitClose
    \/ FanCollect
    \/ FanCollectEnd
    \/ FanRespond

\* ------------------------------------------------------------------------
\* Configuration: JSON values, the file, the Config struct
\* ------------------------------------------------------------------------
Str(x) == [t |-> "str", s |-> x, n |-> 0]
Num(k) == [t |-> "num", s |-> "", n |-> k]
Bool(b) == [t |-> "bool", s |-> "", n |-> IF b THEN 1 ELSE 0]
Absent == [t |-> "absent", s |-> "", n |-> 0]
\* a nested JSON object; n tells its keys: 1 is {"x": ..}, 2 is {"y": ..},
\* 3 is {"x": .., "y": ..}
Obj(keys) == [t |-> "obj", s |-> "", n |-> keys]
\* a JSON array of instance entries; n names the entries it lists: 1 is
\* [{"d1": ..}], 2 is [{"d2": ..}], 3 is both
List(entries) == [t |-> "list", s |-> "", n |-> entries]

\* the keys of config.json the Manager interprets, and one it does not
FileKeys == {"title", "cookie_max_age", "collection_interval_seconds",
             "data_retention_days", "configuration_outdated", "custom",
             "disable_authentication", "disable_settings",
             "disable_configurations", "axeos_instances",
             "data_collection_enabled"}

EmptyObj == [k \in FileKeys |-> Absent]
MissingFile == [st |-> "missing", obj |-> EmptyObj]
\* a file whose content is not JSON (a truncated or partial write)
GarbageFile == [st |-> "garbage", obj |-> EmptyObj]
JsonFile(o) == [st |-> "json", obj |-> o]

DefaultCookieMaxAge == 3600
DefaultCollectionIntervalSeconds == 300
DefaultDataRetentionDays == 30

\* json.Unmarshal(data, &config): a value of the wrong JSON type is an error
TypeOk(o) ==
    /\ o["title"].t \in {"str", "absent"}
    /\ o["cookie_max_age"].t \in {"num", "absent"}
    /\ o["collection_interval_seconds"].t \in {"num", "absent"}
    /\ o["data_retention_days"].t \in {"num", "absent"}
    /\ o["configuration_outdated"].t \in {"bool", "absent"}
    /\ o["disable_authentication"].t \in {"bool", "absent"}
    /\ o["disable_settings"].t \in {"bool", "absent"}
    /\ o["disable_configurations"].t \in {"bool", "absent"}
    /\ o["axeos_instances"].t \in {"list", "absent"}
    /\ o["data_collection_enabled"].t \in {"bool", "absent"}

\* the struct json.Unmarshal fills: absent keys keep Go's zero value, keys
\* that are no field of Config are dropped
Unmarshal(o) ==
    [Title |-> o["title"].s,
     CookieMaxAge |-> o["cookie_max_age"].n,
     CollectionIntervalSeconds |-> o["collection_interval_seconds"].n,
     DataRetentionDays |-> o["data_retention_days"].n,
     ConfigurationOutdated |-> (o["configuration_outdated"].n = 1),
     DisableAuthentication |-> (o["disable_authentication"].n = 1),
     DisableSettings |-> (o["disable_settings"].n = 1),
     DisableConfigurations |-> (o["disable_configurations"].n = 1),
     AxeosInstances |-> o["axeos_instances"].n,
     DataCollectionEnabled |-> (o["data_collection_enabled"].n = 1)]

\* config.go 84-98
ApplyDefaults(c) ==
    [c EXCEPT !.ConfigurationOutdated = FALSE,
              !.CookieMaxAge = IF @ = 0 THEN DefaultCookieMaxAge ELSE @,
              !.CollectionIntervalSeconds =
                    IF @ = 0 THEN DefaultCollectionIntervalSeconds ELSE @,
              !.DataRetentionDays = IF @ = 0 THEN DefaultDataRetentionDays ELSE @]

\* a patch maps every key to the value it sets, or to Absent when it does
\* not name the key
NoPatch == EmptyObj
Patch1(k, v) == [EmptyObj EXCEPT ![k] = v]
Patches ==
    {Patch1("title", Str("B")),
     [EmptyObj EXCEPT !["title"] = Num(7), !["data_retention_days"] = Num(7)],
     Patch1("collection_interval_seconds", Num(0)),
     Patch1("configuration_outdated", Bool(TRUE)),
     Patch1("custom", Obj(2)),
     [EmptyObj EXCEPT !["title"] = Str("B"), !["collection_interval_seconds"] = Num(0)]}

\* the patches that change what a request handler decides
HotPatches ==
    {Patch1("disable_authentication", Bool(TRUE)),
     Patch1("disable_settings", Bool(TRUE)),
     Patch1("disable_configurations", Bool(TRUE)),
     Patch1("axeos_instances", List(3))}

\* the patches that switch data collection on and off
CollectionPatches ==
    {Patch1("data_collection_enabled", Bool(TRUE)),
     Patch1("data_collection_enabled", Bool(FALSE))}

\* ApplyPatch that loses the updates
ApplyPatch_Dropped(o, patch) == o

\* ApplyPatch that merges a nested object of the patch into the nested
\* object the file has under the same key
ApplyPatch_DeepMerge(o, patch) ==
    [k \in FileKeys |->
        IF patch[k] = Absent THEN o[k]
        ELSE IF patch[k].t = "obj" /\ o[k].t = "obj" /\ patch[k].n # o[k].n THEN Obj(3)
        ELSE patch[k]]

\* for key, value := range updates { currentConfig[key] = value }
ApplyPatch(o, patch) ==
    [k \in FileKeys |-> IF patch[k] # Absent THEN patch[k] ELSE o[k]]

\* the files a process may find at start
InitFiles ==
    {MissingFile,
     JsonFile([EmptyObj EXCEPT !["title"] = Str("A"),
                               !["collection_interval_seconds"] = Num(5),
                               !["custom"] = Obj(1)])}

CfgThreads == {"t1", "t2"}

\* Addresses of Config structs. A struct that nothing refers to any more is
\* garbage and its cell is free again; there are cells for the current
\* snapshot, one struct under construction, one held by each thread and one
\* held by each router.
Addrs == 1..(Cardinality(CfgThreads) + 2 + MaxReqs)
FreeCell == [live |-> FALSE, cfg |-> Unmarshal(EmptyObj), src |-> EmptyObj]
EmptyHeap == [a \in Addrs |-> FreeCell]

\* the heap after garbage collection with the given live references
Collect(h, cur, threads, requests, router) ==
    [a \in Addrs |->
        IF \/ a = cur
           \/ a = router
           \/ \E t \in CfgThreads : a \in {threads[t].ptr, threads[t].addr}
           \/ \E r \in DOMAIN requests : a = requests[r].cfg
        THEN h[a] ELSE FreeCell]

IdleThread ==
    [op |-> "idle", pc |-> "idle", patch |-> NoPatch, data |-> MissingFile,
     addr |-> 0, err |-> "", ptr |-> 0, obs |-> <<>>, seen |-> <<>>,
     expect |-> NoPatch, before |-> Unmarshal(EmptyObj), wrote |-> FALSE]

CfgInit ==
    /\ file \in InitFiles
    /\ m_config = 0
    /\ heap = EmptyHeap
    /\ mu = "free"
    /\ cth = [t \in CfgThreads |-> IdleThread]
    /\ opsLeft = MaxConfigOps
    /\ restarts = 0
    /\ lastWriter = "none"
    /\ durable = NoPatch

\* the configuration store of a specification that does not exercise it
CfgIdle ==
    /\ file = MissingFile
    /\ m_config = 0
    /\ heap = EmptyHeap
    /\ mu = "free"
    /\ cth = [t \in CfgThreads |-> IdleThread]
    /\ opsLeft = 0
    /\ restarts = 0
    /\ lastWriter = "none"
    /\ durable = NoPatch

\* ------------------------------------------------------------------------
\* Configuration: GetConfig, LoadConfig, UpdateConfig
\* ------------------------------------------------------------------------
\* the fields a reader takes from a snapshot, in the order it reads them
FieldsOf(c) == <<c.Title, c.CookieMaxAge, c.CollectionIntervalSeconds,
                 c.DataRetentionDays, c.ConfigurationOutdated>>

\* GetConfig: RLock; return m.config; RUnlock
GetConfig(t) ==
    /\ UNCHANGED othersCfg
    /\ cth[t].pc = "idle"
    /\ mu = "free"
    /\ cth' = [cth EXCEPT ![t] =
                 [IdleThread EXCEPT !.op = "get",
                                    !.ptr = m_config,
                                    !.seen = IF m_config = 0 THEN <<>>
                                             ELSE <<heap[m_config]>>,
                                    !.pc = IF m_config = 0 THEN "ret" ELSE "read1"]]
    /\ UNCHANGED <<file, m_config, heap, mu, opsLeft, restarts, lastWriter, durable>>

\* the caller reads the snapshot it was handed, field after field
ReadSnapshot1(t) ==
    /\ UNCHANGED othersCfg
    /\ cth[t].pc = "read1"
    /\ cth' = [cth EXCEPT ![t].obs = <<heap[cth[t].ptr].cfg.Title>>,
                          ![t].pc = "read2"]
    /\ UNCHANGED <<file, m_config, heap, mu, opsLeft, restarts, lastWriter, durable>>

ReadSnapshot2(t) ==
    /\ UNCHANGED othersCfg
    /\ cth[t].pc = "read2"
    /\ cth' = [cth EXCEPT ![t].obs = @ \o Tail(FieldsOf(heap[cth[t].ptr].cfg)),
                          ![t].pc = "ret"]
    /\ UNCHANGED <<file, m_config, heap, mu, opsLeft, restarts, lastWriter, durable>>

\* a call has returned; its thread is free for the next call
CallReturn(t) ==
    /\ UNCHANGED othersCfg
    /\ cth[t].pc = "ret"
    /\ cth' = [cth EXCEPT ![t] = IdleThread]
    /\ heap' = Collect(heap, m_config, cth', req, routerCfg)
    /\ UNCHANGED <<file, m_config, mu, opsLeft, restarts, lastWriter, durable>>

\* a caller enters LoadConfig: m.mu.Lock() (config.go 69); the deferred
\* Unlock is LoadUnlock
LoadCall(t) ==
    /\ UNCHANGED othersCfg
    /\ cth[t].pc = "idle"
    /\ opsLeft > 0
    /\ mu = "free"
    /\ mu' = t
    /\ opsLeft' = opsLeft - 1
    /\ cth' = [cth EXCEPT ![t] = [IdleThread EXCEPT !.op = "load", !.pc = "l_read",
                                                    !.expect = durable]]
    /\ UNCHANGED <<file, m_config, heap, restarts, lastWriter, durable>>

\* UpdateConfig enters LoadConfig for the reload: m.mu.Lock() (config.go 157, 69)
LoadLock(t) ==
    /\ UNCHANGED othersCfg
    /\ cth[t].pc = "l_lock"
    /\ mu = "free"
    /\ mu' = t
    /\ cth' = [cth EXCEPT ![t].pc = "l_read"]
    /\ UNCHANGED <<file, m_config, heap, opsLeft, restarts, lastWriter, durable>>

\* the address of a LoadConfig's Config when it reuses the current struct
NewConfigAddr_InPlace ==
    IF m_config # 0 THEN m_config
    ELSE CHOOSE a \in Addrs : ~heap[a].live /\ \A b \in Addrs : b < a => heap[b].live

\* NewConfigAddr with one struct shared by every LoadConfig
NewConfigAddr_Static == CHOOSE a \in Addrs : \A b \in Addrs : a <= b

\* var config Config (config.go 79): every LoadConfig has a struct of its own
NewConfigAddr == CHOOSE a \in Addrs : ~heap[a].live /\ \A b \in Addrs : b < a => heap[b].live

\* os.ReadFile and json.Unmarshal(data, &config) (config.go 74-82)
LoadRead(t) ==
    /\ UNCHANGED othersCfg
    /\ cth[t].pc = "l_read"
    /\ IF file.st = "missing"
       THEN /\ cth' = [cth EXCEPT ![t].err = "error reading config file",
                                  ![t].pc = "l_unlock"]
            /\ UNCHANGED heap
       ELSE IF file.st = "garbage" \/ ~TypeOk(file.obj)
       THEN /\ cth' = [cth EXCEPT ![t].err = "error parsing config file",
                                  ![t].pc = "l_unlock"]
            /\ UNCHANGED heap
       ELSE LET a == NewConfigAddr
                c == [live |-> TRUE, cfg |-> Unmarshal(file.obj), src |-> file.obj]
            IN /\ heap' = [heap EXCEPT ![a] = c]
               /\ cth' = [cth EXCEPT ![t].addr = a, ![t].pc = "l_defaults"]
    /\ UNCHANGED <<file, m_config, mu, opsLeft, restarts, lastWriter, durable>>

\* the defaults written into the new struct (config.go 84-98)
LoadDefaults(t) ==
    /\ UNCHANGED othersCfg
    /\ cth[t].pc = "l_defaults"
    /\ heap' = [heap EXCEPT ![cth[t].addr].cfg = ApplyDefaults(@)]
    /\ cth' = [cth EXCEPT ![t].pc = "l_store"]
    /\ UNCHANGED <<file, m_config, mu, opsLeft, restarts, lastWriter, durable>>

\* m.config = &config (config.go 100)
LoadStore(t) ==
    /\ UNCHANGED othersCfg
    /\ cth[t].pc = "l_store"
    /\ m_config' = cth[t].addr
    /\ cth' = [cth EXCEPT ![t].pc = "l_unlock"]
    /\ heap' = Collect(heap, m_config', cth', req, routerCfg)
    /\ UNCHANGED <<file, mu, opsLeft, restarts, lastWriter, durable>>

\* the deferred m.mu.Unlock() and the return, to the caller or into
\* UpdateConfig (config.go 157-158)
LoadUnlock(t) ==
    /\ UNCHANGED othersCfg
    /\ cth[t].pc = "l_unlock"
    /\ mu = t
    /\ mu' = "free"
    /\ cth' = [cth EXCEPT ![t].pc = IF cth[t].op = "merge" THEN "m_relock" ELSE "ret"]
    /\ UNCHANGED <<file, m_config, heap, opsLeft, restarts, lastWriter, durable>>

\* the Config GetConfig hands out, the zero Config while nothing is loaded
CurrentConfig == IF m_config = 0 THEN Unmarshal(EmptyObj) ELSE heap[m_config].cfg

\* a caller enters UpdateConfig(updates): m.mu.Lock() (config.go 126)
UpdateCall(t, patch) ==
    /\ UNCHANGED othersCfg
    /\ cth[t].pc = "idle"
    /\ opsLeft > 0
    /\ patch \in Patches \cup HotPatches \cup CollectionPatches
    /\ mu = "free"
    /\ mu' = t
    /\ opsLeft' = opsLeft - 1
    /\ cth' = [cth EXCEPT ![t] = [IdleThread EXCEPT !.op = "merge", !.pc = "m_read",
                                                    !.patch = patch,
                                                    !.before = CurrentConfig]]
    /\ UNCHANGED <<file, m_config, heap, restarts, lastWriter, durable>>

\* UpdateRead that merges the updates into the snapshot in memory instead
\* of the file's content
UpdateRead_FromSnapshot(t) ==
    /\ UNCHANGED othersCfg
    /\ cth[t].pc = "m_read"
    /\ IF m_config = 0
       THEN cth' = [cth EXCEPT ![t].err = "error reading config file",
                               ![t].pc = "m_ret"]
       ELSE cth' = [cth EXCEPT ![t].data = JsonFile(ApplyPatch(heap[m_config].src,
                                                               cth[t].patch)),
                               ![t].pc = "m_write"]
    /\ UNCHANGED <<file, m_config, heap, mu, opsLeft, restarts, lastWriter, durable>>

\* os.ReadFile, json.Unmarshal into a map, the updates applied key by key,
\* MarshalIndent (config.go 130-149); values decoded from a request body
\* always marshal
UpdateRead(t) ==
    /\ UNCHANGED othersCfg
    /\ cth[t].pc = "m_read"
    /\ IF file.st = "missing"
       THEN cth' = [cth EXCEPT ![t].err = "error reading config file",
                               ![t].pc = "m_ret"]
       ELSE IF file.st = "garbage"
       THEN cth' = [cth EXCEPT ![t].err = "error parsing config file",
                               ![t].pc = "m_ret"]
       ELSE cth' = [cth EXCEPT ![t].data = JsonFile(ApplyPatch(file.obj, cth[t].patch)),
                               ![t].pc = "m_write"]
    /\ UNCHANGED <<file, m_config, heap, mu, opsLeft, restarts, lastWriter, durable>>

\* what os.WriteFile can do: write everything, fail to open the file, or
\* fail after truncating it
WriteOutcomes == {"ok", "openfail", "writefail"}

\* os.WriteFile(m.configPath, updatedData, 0644) (config.go 151-153)
UpdateWrite(t, outcome) ==
    /\ UNCHANGED othersCfg
    /\ cth[t].pc = "m_write"
    /\ outcome \in WriteOutcomes
    /\ IF outcome = "openfail"
       THEN /\ cth' = [cth EXCEPT ![t].err = "error writing config file",
                                  ![t].data = MissingFile,
                                  ![t].pc = "m_ret"]
            /\ UNCHANGED <<file, lastWriter, durable>>
       ELSE /\ file' = IF outcome = "ok" THEN cth[t].data ELSE GarbageFile
            /\ lastWriter' = t
            /\ durable' = NoPatch
            /\ cth' = [u \in CfgThreads |->
                         IF u = t
                         THEN [cth[t] EXCEPT
                                 !.err = IF outcome = "ok" THEN ""
                                         ELSE "error writing config file",
                                 !.pc = IF outcome = "ok" THEN "m_unlock" ELSE "m_ret",
                                 !.data = MissingFile,
                                 !.wrote = (outcome = "ok"),
                                 !.expect = NoPatch]
                         ELSE [cth[u] EXCEPT !.expect = NoPatch]]
    /\ UNCHANGED <<m_config, heap, mu, opsLeft, restarts>>

\* m.mu.Unlock() before the reload (config.go 156); LoadConfig follows
UpdateUnlock(t) ==
    /\ UNCHANGED othersCfg
    /\ cth[t].pc = "m_unlock"
    /\ mu = t
    /\ mu' = "free"
    /\ cth' = [cth EXCEPT ![t].pc = "l_lock"]
    /\ UNCHANGED <<file, m_config, heap, opsLeft, restarts, lastWriter, durable>>

\* UpdateRelock without the m.mu.Lock(): the deferred Unlock follows the
\* Unlock that LoadConfig has already made
UpdateRelock_Skip(t) ==
    /\ UNCHANGED othersCfg
    /\ cth[t].pc = "m_relock"
    /\ cth' = [cth EXCEPT ![t].pc = "m_ret"]
    /\ UNCHANGED <<file, m_config, heap, mu, opsLeft, restarts, lastWriter, durable>>

\* m.mu.Lock() after the reload (config.go 158)
UpdateRelock(t) ==
    /\ UNCHANGED othersCfg
    /\ cth[t].pc = "m_relock"
    /\ mu = "free"
    /\ mu' = t
    /\ cth' = [cth EXCEPT ![t].pc = "m_ret"]
    /\ UNCHANGED <<file, m_config, heap, opsLeft, restarts, lastWriter, durable>>

\* the deferred m.mu.Unlock() and return err (config.go 127, 159)
UpdateReturn(t) ==
    /\ UNCHANGED othersCfg
    /\ cth[t].pc = "m_ret"
    /\ mu = t
    /\ mu' = "free"
    /\ cth' = [cth EXCEPT ![t].pc = "ret"]
    /\ durable' = IF cth[t].err = "" /\ lastWriter = t THEN cth[t].patch ELSE durable
    /\ UNCHANGED <<file, m_config, heap, opsLeft, restarts, lastWriter>>

\* the process ends at any point and a fresh one starts: memory is gone,
\* the file stays
ProcessRestart ==
    /\ UNCHANGED othersCfg
    /\ restarts < MaxRestarts
    /\ restarts' = restarts + 1
    /\ m_config' = 0
    /\ heap' = EmptyHeap
    /\ mu' = "free"
    /\ cth' = [t \in CfgThreads |-> IdleThread]
    /\ lastWriter' = "none"
    /\ UNCHANGED <<file, opsLeft, durable>>

CfgNext ==
    \/ \E t \in CfgThreads :
         \/ GetConfig(t)
         \/ ReadSnapshot1(t)
         \/ ReadSnapshot2(t)
         \/ CallReturn(t)
         \/ LoadCall(t)
         \/ LoadLock(t)
         \/ LoadRead(t)
         \/ LoadDefaults(t)
         \/ LoadStore(t)
         \/ LoadUnlock(t)
         \/ \E patch \in Patches : UpdateCall(t, patch)
         \/ UpdateRead(t)
         \/ \E outcome \in WriteOutcomes : UpdateWrite(t, outcome)
         \/ UpdateUnlock(t)
         \/ UpdateRelock(t)
         \/ UpdateReturn(t)
    \/ ProcessRestart

\* a collection task begins with m.cfgManager.LoadConfig() (tasks.go 17):
\* Lock, read, unmarshal, defaults, m.config = &config and the deferred
\* Unlock (config.go 69-103) are one critical section; runs counts the
\* collections of the task, errs those that could not load
CollectorLoad(k) ==
    /\ UNCHANGED <<fanVars, gateVars, hotVars, bootVars>>
    /\ gr[k].runs <= MaxTicks
    /\ mu = "free"
    /\ IF file.st = "json" /\ TypeOk(file.obj)
       THEN LET a == NewConfigAddr
                c == [live |-> TRUE, cfg |-> ApplyDefaults(Unmarshal(file.obj)),
                      src |-> file.obj]
            IN /\ m_config' = a
               /\ heap' = Collect([heap EXCEPT ![a] = c], a, cth, req, routerCfg)
               /\ gr' = [gr EXCEPT ![k].runs = @ + 1, ![k].err = ""]
       ELSE /\ UNCHANGED <<m_config, heap>>
            /\ gr' = [gr EXCEPT ![k].runs = @ + 1, ![k].errs = @ + 1,
                                ![k].err = "failed to load config"]
    /\ UNCHANGED <<file, mu, cth, opsLeft, restarts, lastWriter, durable>>
    /\ UNCHANGED <<sconf, s_cancel, ctxDone, s_tasks, s_wg, s_mu, sc, sink, callsLeft>>

\* the configuration store with the device collector loading beside the
\* callers
MergeNext ==
    \/ CfgNext
    \/ CollectorLoad("miners")

\* ------------------------------------------------------------------------
\* Bootstrap/normal gate: dynamicHandler.ServeHTTP (cmd/server main)
\* ------------------------------------------------------------------------
Reqs == 1..MaxReqs

\* values of dynamicHandler.normalHandler: nil, the router a request built,
\* the router run() built
NoHandler == 0
MainHandler == MaxReqs + 1

AccessFiles == {"missing", "present"}
\* jsonWebTokenKey.json: absent, unusable (no JSON, an empty key, a bad
\* duration), usable
JwtFiles == {"missing", "invalid", "valid"}
ValidConfigObj == [EmptyObj EXCEPT !["title"] = Str("A")]
GateConfigFiles == {MissingFile, GarbageFile, JsonFile(ValidConfigObj)}

\* os.Stat of the three files; only "does not exist" counts
CheckConfigFilesExist ==
    /\ file.st # "missing"
    /\ accessFile # "missing"
    /\ jwtFile # "missing"

NewReq ==
    [pc |-> "new", resp |-> "", cfg |-> 0, pendH |-> FALSE, pendF |-> FALSE,
     inited |-> FALSE, failed |-> FALSE, after500 |-> FALSE, noArts |-> FALSE]

\* run() with the three files missing: bootstrap mode, no normal handler
GateInitBootstrap ==
    /\ file = MissingFile
    /\ accessFile = "missing"
    /\ jwtFile = "missing"
    /\ isBootstrapMode = TRUE
    /\ normalHandler = NoHandler
    /\ jwtService = NULL
    /\ m_config = 0
    /\ heap = EmptyHeap

\* run() with the three files in place and usable: normal mode
GateInitNormal ==
    /\ file = JsonFile(ValidConfigObj)
    /\ accessFile = "present"
    /\ jwtFile = "valid"
    /\ isBootstrapMode = FALSE
    /\ normalHandler = MainHandler
    /\ jwtService = "set"
    /\ m_config = 1
    /\ heap = [EmptyHeap EXCEPT ![1] =
                 [live |-> TRUE, cfg |-> ApplyDefaults(Unmarshal(ValidConfigObj)),
                  src |-> ValidConfigObj]]

GateInit ==
    /\ GateInitBootstrap \/ GateInitNormal
    /\ routerCfg = m_config
    /\ req = [r \in Reqs |-> NewReq]
    /\ mu = "free"
    /\ cth = [t \in CfgThreads |-> IdleThread]
    /\ opsLeft = 0
    /\ restarts = 0
    /\ lastWriter = "none"
    /\ durable = NoPatch

\* the gate of a specification that does not exercise it
GateIdle ==
    /\ accessFile = "missing"
    /\ jwtFile = "missing"
    /\ isBootstrapMode = TRUE
    /\ normalHandler = NoHandler
    /\ jwtService = NULL
    /\ req = [r \in Reqs |-> NewReq]

\* The fields isBootstrapMode and normalHandler are read and written with no
\* lock and no atomic: a request's store reaches memory at some later point,
\* its two stores in either order; the request itself reads its own store.
ViewFlag(r) == IF req[r].pendF THEN FALSE ELSE isBootstrapMode
ViewHandler(r) == IF req[r].pendH THEN r ELSE normalHandler

\* A request arrives and reads h.isBootstrapMode (line 42). Requests are
\* numbered in the order they arrive; after500 records that the request
\* arrived, in bootstrap mode, after a request was answered 500.
GateCheckMode(r) ==
    /\ UNCHANGED <<othersGate, routerCfg>>
    /\ req[r].pc = "new"
    /\ \A q \in Reqs : q < r => req[q].pc # "new"
    /\ req' = [req EXCEPT ![r].pc = IF ViewFlag(r) THEN "files" ELSE "route",
                          ![r].after500 = ViewFlag(r) /\ \E q \in Reqs : req[q].resp = "500"]
    /\ UNCHANGED <<file, m_config, heap, accessFile, jwtFile, isBootstrapMode,
                   normalHandler, jwtService>>

\* config.CheckConfigFilesExist(h.configDir) (line 43)
GateCheckFiles(r) ==
    /\ UNCHANGED <<othersGate, routerCfg>>
    /\ req[r].pc = "files"
    /\ req' = [req EXCEPT ![r].pc = IF CheckConfigFilesExist THEN "jwt" ELSE "route",
                          ![r].after500 = @ /\ CheckConfigFilesExist]
    /\ UNCHANGED <<file, m_config, heap, accessFile, jwtFile, isBootstrapMode,
                   normalHandler, jwtService>>

\* a failing initialization that goes on to build the router
Fail500_FallThrough(rq) == [rq EXCEPT !.pc = "build", !.failed = TRUE]

\* http.Error(w, ..., http.StatusInternalServerError); return
Fail500(rq) == [rq EXCEPT !.pc = "done", !.resp = "500", !.failed = TRUE]

\* auth.InitJWTService(h.configDir) (lines 47-51)
GateInitJWT(r) ==
    /\ UNCHANGED <<othersGate, routerCfg>>
    /\ req[r].pc = "jwt"
    /\ IF jwtFile = "valid"
       THEN /\ jwtService' = "set"
            /\ req' = [req EXCEPT ![r].pc = "load"]
       ELSE /\ req' = [req EXCEPT ![r] = Fail500(@)]
            /\ UNCHANGED jwtService
    /\ UNCHANGED <<file, m_config, heap, accessFile, jwtFile, isBootstrapMode,
                   normalHandler>>

\* h.cfgManager.LoadConfig() (lines 54-60): the whole call, under the
\* Manager's lock
GateLoadConfig(r) ==
    /\ UNCHANGED <<othersGate, routerCfg>>
    /\ req[r].pc = "load"
    /\ mu = "free"
    /\ IF file.st # "json" \/ ~TypeOk(file.obj)
       THEN /\ req' = [req EXCEPT ![r] = Fail500(@)]
            /\ UNCHANGED <<m_config, heap>>
       ELSE LET a == NewConfigAddr
                c == [live |-> TRUE, cfg |-> ApplyDefaults(Unmarshal(file.obj)),
                      src |-> file.obj]
            IN /\ req' = [req EXCEPT ![r].cfg = a, ![r].pc = "build"]
               /\ m_config' = a
               /\ heap' = Collect([heap EXCEPT ![a] = c], a, cth, req', routerCfg)
    /\ UNCHANGED <<file, accessFile, jwtFile, isBootstrapMode, normalHandler, jwtService>>

\* h.normalHandler = router.SetupRouter(...); h.isBootstrapMode = false
\* (lines 63-64): two plain stores, nothing of them in memory yet
GateSwitch(r) ==
    /\ UNCHANGED othersGate
    /\ req[r].pc = "build"
    /\ routerCfg' = req[r].cfg
    /\ req' = [req EXCEPT ![r].pendH = TRUE, ![r].pendF = TRUE, ![r].inited = TRUE,
                          ![r].pc = "route"]
    /\ UNCHANGED <<file, m_config, heap, accessFile, jwtFile, isBootstrapMode,
                   normalHandler, jwtService>>

\* a store of the request reaches memory
GatePublish(r, field) ==
    /\ UNCHANGED <<othersGate, routerCfg>>
    /\ \/ /\ field = "normalHandler"
          /\ req[r].pendH
          /\ normalHandler' = r
          /\ req' = [req EXCEPT ![r].pendH = FALSE]
          /\ UNCHANGED isBootstrapMode
       \/ /\ field = "isBootstrapMode"
          /\ req[r].pendF
          /\ isBootstrapMode' = FALSE
          /\ req' = [req EXCEPT ![r].pendF = FALSE]
          /\ UNCHANGED normalHandler
    /\ UNCHANGED <<file, m_config, heap, accessFile, jwtFile, jwtService>>

\* routing that looks at the files again
RouteTarget_Recheck(r) ==
    IF ViewFlag(r) \/ ~CheckConfigFilesExist THEN "bootstrap"
    ELSE IF ViewHandler(r) = NoHandler THEN "dropped"
    ELSE "normal"

\* if h.isBootstrapMode { bootstrapHandler } else { normalHandler } (lines
\* 71-75); a call on the nil normalHandler panics, and net/http answers a
\* panicking handler by closing the connection
RouteTarget(r) ==
    IF ViewFlag(r) THEN "bootstrap"
    ELSE IF ViewHandler(r) = NoHandler THEN "dropped"
    ELSE "normal"

GateRoute(r) ==
    /\ UNCHANGED <<othersGate, routerCfg>>
    /\ req[r].pc = "route"
    /\ req' = [req EXCEPT ![r].resp = RouteTarget(r), ![r].pc = "done",
                          ![r].noArts = RouteTarget(r) = "normal" /\ ~CheckConfigFilesExist]
    /\ UNCHANGED <<file, m_config, heap, accessFile, jwtFile, isBootstrapMode,
                   normalHandler, jwtService>>

\* The setup form or the operator puts a file in place, whole or not
\* (HandleBootstrapSubmit writes config.json, access.json and
\* jsonWebTokenKey.json one after the other).
ConfigFileWrite(content) ==
    /\ UNCHANGED <<othersGate, routerCfg>>
    /\ content \notin {MissingFile, file}
    /\ file' = content
    /\ UNCHANGED <<m_config, heap, accessFile, jwtFile, isBootstrapMode,
                   normalHandler, jwtService, req>>

AccessFileWrite ==
    /\ UNCHANGED <<othersGate, routerCfg>>
    /\ accessFile = "missing"
    /\ accessFile' = "present"
    /\ UNCHANGED <<file, m_config, heap, jwtFile, isBootstrapMode,
                   normalHandler, jwtService, req>>

JwtFileWrite(content) ==
    /\ UNCHANGED <<othersGate, routerCfg>>
    /\ content \notin {"missing", jwtFile}
    /\ jwtFile' = content
    /\ UNCHANGED <<file, m_config, heap, accessFile, isBootstrapMode,
                   normalHandler, jwtService, req>>

ArtifactNames == {"config.json", "access.json", "jsonWebTokenKey.json"}

\* a file is removed from the configuration directory
ArtifactRemove(name) ==
    /\ UNCHANGED <<othersGate, routerCfg>>
    /\ \/ /\ name = "config.json"
          /\ file # MissingFile
          /\ file' = MissingFile
          /\ UNCHANGED <<accessFile, jwtFile>>
       \/ /\ name = "access.json"
          /\ accessFile # "missing"
          /\ accessFile' = "missing"
          /\ UNCHANGED <<file, jwtFile>>
       \/ /\ name = "jsonWebTokenKey.json"
          /\ jwtFile # "missing"
          /\ jwtFile' = "missing"
          /\ UNCHANGED <<file, accessFile>>
    /\ UNCHANGED <<m_config, heap, isBootstrapMode, normalHandler, jwtService, req>>

GateNext ==
    \/ \E r \in Reqs :
         \/ GateCheckMode(r)
         \/ GateCheckFiles(r)
         \/ GateInitJWT(r)
         \/ GateLoadConfig(r)
         \/ GateSwitch(r)
         \/ \E field \in {"normalHandler", "isBootstrapMode"} : GatePublish(r, field)
         \/ GateRoute(r)
    \/ \E content \in GateConfigFiles : ConfigFileWrite(content)
    \/ AccessFileWrite
    \/ \E content \in JwtFiles : JwtFileWrite(content)
    \/ \E name \in ArtifactNames : ArtifactRemove(name)

\* ------------------------------------------------------------------------
\* Collection scheduler: Manager.Start, Manager.Stop, runTask, the tasks
\* ------------------------------------------------------------------------
TaskNames == {"miners", "pools", "nodes"}
SchedPeers == {"d1", "d2", "p1", "n1"}
Callers == {"c1", "c2"}

\* what a configuration says about collection; loadable is FALSE for a
\* config.json that LoadConfig cannot read or parse
SchedConf(ok, devices, poolsOn, pools, nodesOn, nodes) ==
    [loadable |-> ok, devices |-> devices, MiningCoreEnabled |-> poolsOn,
     pools |-> pools, CryptNodesEnabled |-> nodesOn, nodes |-> nodes,
     CollectionIntervalSeconds |-> 0, DataRetentionDays |-> 0]

\* the file's collection_interval_seconds and data_retention_days, 0 when
\* the key is absent
WithIntervals(conf, seconds, days) ==
    [conf EXCEPT !.CollectionIntervalSeconds = seconds, !.DataRetentionDays = days]

SchedConfigs ==
    {SchedConf(FALSE, <<>>, FALSE, <<>>, FALSE, <<>>),
     SchedConf(TRUE, <<"d1", "d2">>, FALSE, <<>>, FALSE, <<>>),
     WithIntervals(SchedConf(TRUE, <<"d1">>, TRUE, <<"p1">>, FALSE, <<>>), 60, 7),
     WithIntervals(SchedConf(TRUE, <<>>, FALSE, <<"p1">>, TRUE, <<"n1">>), -5, 0),
     SchedConf(TRUE, <<>>, TRUE, <<>>, TRUE, <<>>)}

\* what LoadConfig hands the scheduler for a configuration: the defaults
\* are in
SchedLoad(conf) ==
    LET c == ApplyDefaults([Unmarshal(EmptyObj) EXCEPT
                   !.CollectionIntervalSeconds = conf.CollectionIntervalSeconds,
                   !.DataRetentionDays = conf.DataRetentionDays])
    IN WithIntervals(conf, c.CollectionIntervalSeconds, c.DataRetentionDays)

\* defaultInterval := 5 * time.Minute, in seconds
defaultInterval == 300

\* an interval taken from the configuration as it is
TaskInterval_NoDefault(cfg) == cfg.CollectionIntervalSeconds

\* TaskInterval that raises a configured interval below one second to one
TaskInterval_Clamp(cfg) ==
    IF cfg.CollectionIntervalSeconds > 1 THEN cfg.CollectionIntervalSeconds ELSE 1

\* registerTasks: the interval of the tasks, in seconds
TaskInterval(cfg) ==
    IF cfg.CollectionIntervalSeconds > 0 THEN cfg.CollectionIntervalSeconds
    ELSE defaultInterval

Task(name, cfg) == [Name |-> name, Interval |-> TaskInterval(cfg)]

\* registerTasks that does not look at the enabling flags
registerTasks_NoFlags(cfg) ==
    (IF Len(cfg.devices) > 0 THEN <<Task("miners", cfg)>> ELSE <<>>)
    \o (IF Len(cfg.pools) > 0 THEN <<Task("pools", cfg)>> ELSE <<>>)
    \o (IF Len(cfg.nodes) > 0 THEN <<Task("nodes", cfg)>> ELSE <<>>)

\* registerTasks: the tasks a configuration asks for, in their order
registerTasks(cfg) ==
    (IF Len(cfg.devices) > 0 THEN <<Task("miners", cfg)>> ELSE <<>>)
    \o (IF cfg.MiningCoreEnabled /\ Len(cfg.pools) > 0 THEN <<Task("pools", cfg)>> ELSE <<>>)
    \o (IF cfg.CryptNodesEnabled THEN <<Task("nodes", cfg)>> ELSE <<>>)

\* the peers a task walks through
TaskPeers(k, cfg) ==
    IF k = "miners" THEN cfg.devices
    ELSE IF k = "pools" THEN cfg.pools
    ELSE cfg.nodes

\* interval is the Interval of the goroutine's task, ticker the period of
\* its ticker once it has one; out is what the collection of the peer just
\* polled came to and ans what that peer answered, err the error this run
\* of task.Fn returned, runs the calls of task.Fn so far and errs those that
\* returned an error, peers the list this run of task.Fn walks through
NoAnswer == [fetch |-> "", insert |-> FALSE]
NoGoroutine == [pc |-> "none", i |-> 0, ticks |-> 0, interval |-> 0, ticker |-> 0,
                out |-> "", err |-> "", runs |-> 0, errs |-> 0,
                peers |-> <<>>, ans |-> NoAnswer]
IdleCaller == [op |-> "idle", pc |-> "idle", i |-> 0, err |-> "", waited |-> FALSE]

SchedInit ==
    /\ sconf \in SchedConfigs
    /\ s_cancel = NULL
    /\ ctxDone = FALSE
    /\ s_tasks = <<>>
    /\ s_wg = 0
    /\ s_mu = "free"
    /\ sc = [c \in Callers |-> IdleCaller]
    /\ gr = [k \in TaskNames |-> NoGoroutine]
    /\ sink = [p \in SchedPeers |-> 0]
    /\ callsLeft = MaxSchedCalls

\* the scheduler of a specification that does not exercise it
SchedIdle ==
    /\ sconf = SchedConf(FALSE, <<>>, FALSE, <<>>, FALSE, <<>>)
    /\ s_cancel = NULL
    /\ ctxDone = FALSE
    /\ s_tasks = <<>>
    /\ s_wg = 0
    /\ s_mu = "free"
    /\ sc = [c \in Callers |-> IdleCaller]
    /\ gr = [k \in TaskNames |-> NoGoroutine]
    /\ sink = [p \in SchedPeers |-> 0]
    /\ callsLeft = 0

Alive(k) == gr[k].pc \notin {"none", "exited"}

\* Start that never takes the scheduler for a running one
StartRejected_Never == FALSE

\* if m.cancel != nil { return fmt.Errorf("scheduler already running") }
StartRejected == s_cancel # NULL

\* Start up to the loop that starts the tasks: Lock, the check of m.cancel,
\* context.WithCancel, LoadConfig, registerTasks
StartCall(c) ==
    /\ UNCHANGED othersSched
    /\ sc[c].pc = "idle"
    /\ callsLeft > 0
    /\ s_mu = "free"
    /\ callsLeft' = callsLeft - 1
    /\ IF StartRejected
       THEN /\ sc' = [sc EXCEPT ![c] = [IdleCaller EXCEPT !.op = "start", !.pc = "ret",
                                           !.err = "scheduler already running"]]
            /\ UNCHANGED <<s_cancel, ctxDone, s_tasks, s_mu>>
       ELSE /\ s_cancel' = "set"
            /\ ctxDone' = FALSE
            /\ IF ~sconf.loadable
               THEN /\ sc' = [sc EXCEPT ![c] = [IdleCaller EXCEPT !.op = "start",
                                   !.pc = "ret", !.err = "failed to load config"]]
                    /\ UNCHANGED <<s_tasks, s_mu>>
               ELSE /\ s_tasks' = s_tasks \o registerTasks(SchedLoad(sconf))
                    /\ s_mu' = c
                    /\ sc' = [sc EXCEPT ![c] = [IdleCaller EXCEPT !.op = "start",
                                   !.pc = "spawn", !.i = 1]]
    /\ UNCHANGED <<sconf, s_wg, gr, sink>>

\* for _, task := range m.tasks { m.wg.Add(1); go m.runTask(task) }
StartSpawn(c) ==
    /\ UNCHANGED othersSched
    /\ sc[c].pc = "spawn"
    /\ sc[c].i <= Len(s_tasks)
    /\ s_wg' = s_wg + 1
    /\ gr' = [gr EXCEPT ![s_tasks[sc[c].i].Name] =
                 [NoGoroutine EXCEPT !.pc = "spawned",
                                     !.interval = s_tasks[sc[c].i].Interval]]
    /\ sc' = [sc EXCEPT ![c].i = @ + 1]
    /\ UNCHANGED <<sconf, s_cancel, ctxDone, s_tasks, s_mu, sink, callsLeft>>

\* return nil and the deferred Unlock
StartReturn(c) ==
    /\ UNCHANGED othersSched
    /\ sc[c].pc = "spawn"
    /\ sc[c].i > Len(s_tasks)
    /\ s_mu' = "free"
    /\ sc' = [sc EXCEPT ![c].pc = "ret"]
    /\ UNCHANGED <<sconf, s_cancel, ctxDone, s_tasks, s_wg, gr, sink, callsLeft>>

\* Stop that takes every call for a call on a running scheduler
StopIsNoop_Never == FALSE

\* if m.cancel == nil { return }
StopIsNoop == s_cancel = NULL

\* Stop up to the wait: Lock, the check of m.cancel, m.cancel(), the
\* tickers' Stop (a tick already sent stays in the ticker's channel)
StopCall(c) ==
    /\ UNCHANGED othersSched
    /\ sc[c].pc = "idle"
    /\ callsLeft > 0
    /\ s_mu = "free"
    /\ callsLeft' = callsLeft - 1
    /\ IF StopIsNoop
       THEN /\ sc' = [sc EXCEPT ![c] = [IdleCaller EXCEPT !.op = "stop", !.pc = "ret"]]
            /\ UNCHANGED <<ctxDone, s_mu>>
       ELSE /\ ctxDone' = TRUE
            /\ s_mu' = c
            /\ sc' = [sc EXCEPT ![c] = [IdleCaller EXCEPT !.op = "stop", !.pc = "wait"]]
    /\ UNCHANGED <<sconf, s_cancel, s_tasks, s_wg, gr, sink>>

\* a wait that returns at once
StopWaitDone_NoWait == TRUE

\* m.wg.Wait() returns
StopWaitDone == s_wg = 0

\* StopWait that leaves the task list as it is
StopWait_KeepTasks(c) ==
    /\ UNCHANGED othersSched
    /\ sc[c].pc = "wait"
    /\ StopWaitDone
    /\ s_cancel' = NULL
    /\ s_mu' = "free"
    /\ sc' = [sc EXCEPT ![c].pc = "ret", ![c].waited = TRUE]
    /\ UNCHANGED <<sconf, ctxDone, s_tasks, s_wg, gr, sink, callsLeft>>

\* the rest of Stop: m.cancel = nil, m.tasks = empty, the deferred Unlock
StopWait(c) ==
    /\ UNCHANGED othersSched
    /\ sc[c].pc = "wait"
    /\ StopWaitDone
    /\ s_cancel' = NULL
    /\ s_tasks' = <<>>
    /\ s_mu' = "free"
    /\ sc' = [sc EXCEPT ![c].pc = "ret", ![c].waited = TRUE]
    /\ UNCHANGED <<sconf, ctxDone, s_wg, gr, sink, callsLeft>>

\* the caller goes on after a Start or a Stop has returned
SchedCallReturn(c) ==
    /\ UNCHANGED othersSched
    /\ sc[c].pc = "ret"
    /\ sc' = [sc EXCEPT ![c] = IdleCaller]
    /\ UNCHANGED <<sconf, s_cancel, ctxDone, s_tasks, s_wg, s_mu, gr, sink, callsLeft>>

\* runTask begins: time.NewTicker(task.Interval), which panics on an
\* interval that is not positive, then the first run of task.Fn
RunTaskBegin(k) ==
    /\ UNCHANGED othersSched
    /\ gr[k].pc = "spawned"
    /\ gr' = [gr EXCEPT ![k].pc = IF gr[k].interval > 0 THEN "fn" ELSE "panicked",
                        ![k].ticker = gr[k].interval]
    /\ UNCHANGED <<sconf, s_cancel, ctxDone, s_tasks, s_wg, s_mu, sc, sink, callsLeft>>

\* FnLoad that walks through the peers of the first configuration it loaded
FnLoad_Cached(k) ==
    /\ UNCHANGED othersSched
    /\ gr[k].pc = "fn"
    /\ gr' = [gr EXCEPT ![k].pc = IF sconf.loadable THEN "peer" ELSE "select",
                        ![k].i = 1, ![k].out = "", ![k].runs = @ + 1,
                        ![k].peers = IF ~sconf.loadable THEN <<>>
                                     ELSE IF gr[k].runs = 0 THEN TaskPeers(k, sconf)
                                     ELSE @,
                        ![k].err = IF sconf.loadable THEN "" ELSE "failed to load config",
                        ![k].errs = IF sconf.loadable THEN @ ELSE @ + 1]
    /\ UNCHANGED <<sconf, s_cancel, ctxDone, s_tasks, s_wg, s_mu, sc, sink, callsLeft>>

\* FnLoad whose error ends the task
FnLoad_EndOnError(k) ==
    /\ UNCHANGED othersSched
    /\ gr[k].pc = "fn"
    /\ gr' = [gr EXCEPT ![k].pc = IF sconf.loadable THEN "peer" ELSE "exited",
                        ![k].i = 1, ![k].out = "", ![k].runs = @ + 1,
                        ![k].peers = IF sconf.loadable THEN TaskPeers(k, sconf) ELSE <<>>,
                        ![k].err = IF sconf.loadable THEN "" ELSE "failed to load config",
                        ![k].errs = IF sconf.loadable THEN @ ELSE @ + 1]
    /\ s_wg' = IF sconf.loadable THEN s_wg ELSE s_wg - 1
    /\ UNCHANGED <<sconf, s_cancel, ctxDone, s_tasks, s_mu, sc, sink, callsLeft>>

\* task.Fn begins: LoadConfig, and the walk over the peers starts; a
\* configuration that does not load is the error task.Fn returns
FnLoad(k) ==
    /\ UNCHANGED othersSched
    /\ gr[k].pc = "fn"
    /\ gr' = [gr EXCEPT ![k].pc = IF sconf.loadable THEN "peer" ELSE "select",
                        ![k].i = 1, ![k].out = "", ![k].runs = @ + 1,
                        ![k].peers = IF sconf.loadable THEN TaskPeers(k, sconf) ELSE <<>>,
                        ![k].err = IF sconf.loadable THEN "" ELSE "failed to load config",
                        ![k].errs = IF sconf.loadable THEN @ ELSE @ + 1]
    /\ UNCHANGED <<sconf, s_cancel, ctxDone, s_tasks, s_wg, s_mu, sc, sink, callsLeft>>

\* FnPeer that walks on without looking at ctx.Done()
FnPeer_NoCheck(k) ==
    /\ UNCHANGED othersSched
    /\ gr[k].pc = "peer"
    /\ gr' = [gr EXCEPT ![k].pc = IF gr[k].i > Len(gr[k].peers)
                                  THEN "select" ELSE "collect",
                        ![k].out = "", ![k].ans = NoAnswer]
    /\ UNCHANGED <<sconf, s_cancel, ctxDone, s_tasks, s_wg, s_mu, sc, sink, callsLeft>>

\* select { case <-ctx.Done(): return ctx.Err(); default: collect }
FnPeer(k) ==
    /\ UNCHANGED othersSched
    /\ gr[k].pc = "peer"
    /\ gr' = [gr EXCEPT ![k].pc = IF gr[k].i > Len(gr[k].peers) \/ ctxDone
                                  THEN "select" ELSE "collect",
                        ![k].out = "", ![k].ans = NoAnswer,
                        ![k].err = IF gr[k].i <= Len(gr[k].peers) /\ ctxDone
                                   THEN "context canceled" ELSE @,
                        ![k].errs = IF gr[k].i <= Len(gr[k].peers) /\ ctxDone
                                    THEN @ + 1 ELSE @]
    /\ UNCHANGED <<sconf, s_cancel, ctxDone, s_tasks, s_wg, s_mu, sc, sink, callsLeft>>

CollectOutcomes == {"fetchfail", "insertfail", "ok"}

\* what the two RPC calls of a node's collection come to: the call that
\* failed, or ok
NodeRpcAnswers == {"getblockchaininfo", "getnetworkinfo", "ok"}

\* what a poll meets: the peer's answer and, when there is a record to
\* insert, whether the database takes it
CollectAnswers(k) ==
    {a \in [fetch : IF k = "nodes" THEN NodeRpcAnswers ELSE HttpAnswers,
            insert : BOOLEAN] : a.fetch \in {"ok", "null"} \/ a.insert}

\* one answer for each outcome
SchedAnswers ==
    {[fetch |-> "neterr", insert |-> TRUE], [fetch |-> "ok", insert |-> FALSE],
     [fetch |-> "ok", insert |-> TRUE]}

\* collectSingleMetric that does not look at the status of the response
collectSingleMetric_NoStatusCheck(k, conf, a) ==
    IF k = "miners" /\ ~conf.loadable THEN "fetchfail"
    ELSE IF k = "nodes" /\ a.fetch # "ok" THEN "fetchfail"
    ELSE IF k # "nodes" /\ a.fetch \in FailedAnswers \ {"status500"} THEN "fetchfail"
    ELSE IF ~a.insert THEN "insertfail"
    ELSE "ok"

\* collectSingleAxeOSMetric, collectSinglePoolMetric, collectSingleNodeMetric:
\* the device's collection loads the configuration again (tasks.go 42-45);
\* http.Get, the status, the body and its decoding into a map, into which
\* the literal null decodes too (tasks.go 53-71, 149-167), or the two RPC
\* calls (tasks.go 245-260); then the insert
collectSingleMetric(k, conf, a) ==
    IF k = "miners" /\ ~conf.loadable THEN "fetchfail"
    ELSE IF k = "nodes" /\ a.fetch # "ok" THEN "fetchfail"
    ELSE IF k # "nodes" /\ a.fetch \in FailedAnswers THEN "fetchfail"
    ELSE IF ~a.insert THEN "insertfail"
    ELSE "ok"

\* FnCollect that returns the peer's error from task.Fn
FnCollect_ReturnErr(k, a) ==
    LET outcome == collectSingleMetric(k, sconf, a)
    IN /\ UNCHANGED othersSched
       /\ gr[k].pc = "collect"
       /\ sink' = IF outcome = "ok"
                  THEN [sink EXCEPT ![gr[k].peers[gr[k].i]] = @ + 1]
                  ELSE sink
       /\ gr' = [gr EXCEPT ![k].pc = IF outcome = "ok" THEN "peer" ELSE "select",
                           ![k].i = IF outcome = "ok" THEN @ + 1 ELSE @,
                           ![k].out = outcome, ![k].ans = a,
                           ![k].err = IF outcome = "ok" THEN @ ELSE outcome,
                           ![k].errs = IF outcome = "ok" THEN @ ELSE @ + 1]
       /\ UNCHANGED <<sconf, s_cancel, ctxDone, s_tasks, s_wg, s_mu, sc, callsLeft>>

\* collectSingle...Metric on the peer the walk has reached: fetch the
\* peer, insert the record; an error is logged and the walk goes on
FnCollect(k, a) ==
    LET outcome == collectSingleMetric(k, sconf, a)
    IN /\ UNCHANGED othersSched
       /\ gr[k].pc = "collect"
       /\ sink' = IF outcome = "ok"
                  THEN [sink EXCEPT ![gr[k].peers[gr[k].i]] = @ + 1]
                  ELSE sink
       /\ gr' = [gr EXCEPT ![k].pc = "peer", ![k].i = @ + 1, ![k].out = outcome,
                           ![k].ans = a]
       /\ UNCHANGED <<sconf, s_cancel, ctxDone, s_tasks, s_wg, s_mu, sc, callsLeft>>

\* config.json stops loading while the scheduler runs: a write that did
\* not complete, or content LoadConfig rejects
ConfigBreaks ==
    /\ UNCHANGED othersSched
    /\ sconf.loadable
    /\ s_cancel # NULL
    /\ sconf' = [sconf EXCEPT !.loadable = FALSE]
    /\ UNCHANGED <<s_cancel, ctxDone, s_tasks, s_wg, s_mu, sc, gr, sink, callsLeft>>

\* the configurations config.json goes through while the scheduler runs:
\* two devices and a pool polled every minute, or a node, the pool
\* disabled and no interval
ReloadConfigs ==
    {WithIntervals(SchedConf(TRUE, <<"d1", "d2">>, TRUE, <<"p1">>, FALSE, <<>>), 60, 7),
     SchedConf(TRUE, <<>>, FALSE, <<"p1">>, TRUE, <<"n1">>)}

\* config.json is replaced while the scheduler runs, by UpdateConfig or by
\* hand: the next LoadConfig of a collection reads the new content
ConfigChange(conf) ==
    /\ UNCHANGED othersSched
    /\ s_cancel # NULL
    /\ s_mu = "free"
    /\ conf \in ReloadConfigs
    /\ conf # sconf
    /\ sconf' = conf
    /\ UNCHANGED <<s_cancel, ctxDone, s_tasks, s_wg, s_mu, sc, gr, sink, callsLeft>>

\* select: case <-m.ctx.Done(): return, with the deferred wg.Done()
RunTaskExit(k) ==
    /\ UNCHANGED othersSched
    /\ gr[k].pc = "select"
    /\ ctxDone
    /\ gr' = [gr EXCEPT ![k].pc = "exited"]
    /\ s_wg' = s_wg - 1
    /\ UNCHANGED <<sconf, s_cancel, ctxDone, s_tasks, s_mu, sc, sink, callsLeft>>

\* RunTaskTick that takes a tick while task.Fn is still at work
RunTaskTick_Async(k) ==
    /\ UNCHANGED othersSched
    /\ gr[k].pc \in {"select", "peer"}
    /\ gr[k].ticks < MaxTicks
    /\ gr' = [gr EXCEPT ![k].pc = "fn", ![k].ticks = @ + 1]
    /\ UNCHANGED <<sconf, s_cancel, ctxDone, s_tasks, s_wg, s_mu, sc, sink, callsLeft>>

\* select: case <-task.Ticker.C: the next run of task.Fn
RunTaskTick(k) ==
    /\ UNCHANGED othersSched
    /\ gr[k].pc = "select"
    /\ gr[k].ticks < MaxTicks
    /\ gr' = [gr EXCEPT ![k].pc = "fn", ![k].ticks = @ + 1]
    /\ UNCHANGED <<sconf, s_cancel, ctxDone, s_tasks, s_wg, s_mu, sc, sink, callsLeft>>

SchedNext ==
    \/ \E c \in Callers :
         \/ StartCall(c)
         \/ StartSpawn(c)
         \/ StartReturn(c)
         \/ StopCall(c)
         \/ StopWait(c)
         \/ SchedCallReturn(c)
    \/ \E k \in TaskNames :
         \/ RunTaskBegin(k)
         \/ FnLoad(k)
         \/ FnPeer(k)
         \/ \E a \in SchedAnswers : FnCollect(k, a)
         \/ RunTaskExit(k)
         \/ RunTaskTick(k)
    \/ ConfigBreaks

\* the scheduler beside a configuration that changes, every answer of a
\* peer told apart
ReloadNext ==
    \/ \E c \in Callers :
         \/ StartCall(c)
         \/ StartSpawn(c)
         \/ StartReturn(c)
         \/ StopCall(c)
         \/ StopWait(c)
         \/ SchedCallReturn(c)
    \/ \E k \in TaskNames :
         \/ RunTaskBegin(k)
         \/ FnLoad(k)
         \/ FnPeer(k)
         \/ \E a \in CollectAnswers(k) : FnCollect(k, a)
         \/ RunTaskExit(k)
         \/ RunTaskTick(k)
    \/ \E conf \in ReloadConfigs : ConfigChange(conf)

\* ------------------------------------------------------------------------
\* Requests in normal mode: the configuration-dependent decisions
\* ------------------------------------------------------------------------
Endpoints == {"auth", "settings", "configuration", "systems"}

\* the key of config.json a decision depends on
EndpointKey(e) ==
    CASE e = "auth" -> "disable_authentication"
      [] e = "settings" -> "disable_settings"
      [] e = "configuration" -> "disable_configurations"
      [] e = "systems" -> "axeos_instances"

NoRequest == [endpoint |-> "none", saw |-> Absent, want |-> Absent]

\* the router of a specification that does not exercise it
HotIdle ==
    /\ routerCfg = 0
    /\ hreq = NoRequest

HotConfigObj ==
    [EmptyObj EXCEPT !["title"] = Str("A"), !["axeos_instances"] = List(1)]

\* run() in normal mode: LoadConfig, then SetupRouter(cfgManager, cfg, ..)
HotInit ==
    /\ file = JsonFile(HotConfigObj)
    /\ m_config = 1
    /\ heap = [EmptyHeap EXCEPT ![1] =
                 [live |-> TRUE, cfg |-> ApplyDefaults(Unmarshal(HotConfigObj)),
                  src |-> HotConfigObj]]
    /\ routerCfg = 1
    /\ accessFile = "present"
    /\ jwtFile = "valid"
    /\ isBootstrapMode = FALSE
    /\ normalHandler = MainHandler
    /\ jwtService = "set"
    /\ req = [r \in Reqs |-> NewReq]
    /\ mu = "free"
    /\ cth = [t \in CfgThreads |-> IdleThread]
    /\ opsLeft = MaxConfigOps
    /\ restarts = 0
    /\ lastWriter = "none"
    /\ durable = NoPatch
    /\ hreq = NoRequest

\* the configuration a handler bases its decision on: cfgManager.GetConfig()
\* in the middleware, the instance handlers and the aggregate endpoint, the
\* cfg parameter of HandleConfiguration in the configuration endpoint
HandlerConfig(e) ==
    IF e = "configuration" THEN heap[routerCfg].cfg ELSE CurrentConfig

\* the decision itself: skip the JWT check, answer 403, or the peers polled
Decision(e) ==
    LET c == HandlerConfig(e)
    IN CASE e = "auth" -> Bool(c.DisableAuthentication)
         [] e = "settings" -> Bool(c.DisableSettings)
         [] e = "configuration" -> Bool(c.DisableConfigurations)
         [] e = "systems" -> List(c.AxeosInstances)

\* one request: every route passes the auth middleware, whose GetConfig
\* takes the read lock
ServeRequest(e) ==
    /\ UNCHANGED <<fanVars, gateVars, schedVars, cfgVars, routerCfg, bootVars>>
    /\ mu = "free"
    /\ hreq' = [endpoint |-> e, saw |-> Decision(e), want |-> durable[EndpointKey(e)]]

\* PATCH /api/configuration: HandleConfiguration's check, then
\* handleUpdateConfiguration calls UpdateConfig
PatchRequest(t, patch) ==
    /\ Decision("configuration") = Bool(FALSE)
    /\ UpdateCall(t, patch)

HotNext ==
    \/ \E e \in Endpoints : ServeRequest(e)
    \/ \E t \in CfgThreads :
         \/ \E patch \in HotPatches : PatchRequest(t, patch)
         \/ UpdateRead(t)
         \/ \E outcome \in WriteOutcomes : UpdateWrite(t, outcome)
         \/ UpdateUnlock(t)
         \/ LoadLock(t)
         \/ LoadRead(t)
         \/ LoadDefaults(t)
         \/ LoadStore(t)
         \/ LoadUnlock(t)
         \/ UpdateRelock(t)
         \/ UpdateReturn(t)
         \/ CallReturn(t)

\* ------------------------------------------------------------------------
\* Setup form: HandleBootstrapSubmit (handlers bootstrap)
\* ------------------------------------------------------------------------
Subs == {"s1", "s2"}

\* what a submission carries, as far as the handler looks at it: the
\* method, whether the body decodes into BootstrapRequest, the title,
\* enableAuth, username, password, the length of jwtKey, the number of
\* devices, enableCryptoNode
Form(method, decodes, title, auth, user, pass, keyLen, devices, node) ==
    [method |-> method, decodes |-> decodes, Title |-> title, EnableAuth |-> auth,
     Username |-> user, Password |-> pass, JWTKeyLen |-> keyLen,
     devices |-> devices, EnableCryptoNode |-> node]

KeyLen == 32

BootForms ==
    {Form("GET", TRUE, "A", FALSE, "", "", 0, 1, FALSE),
     Form("POST", FALSE, "", FALSE, "", "", 0, 0, FALSE),
     Form("POST", TRUE, "", FALSE, "", "", 0, 1, FALSE),
     Form("POST", TRUE, "A", TRUE, "u", "", KeyLen, 1, FALSE),
     Form("POST", TRUE, "A", TRUE, "u", "p", KeyLen - 1, 1, FALSE),
     Form("POST", TRUE, "A", FALSE, "", "", 0, 0, FALSE),
     Form("POST", TRUE, "A", TRUE, "u", "p", KeyLen, 1, FALSE),
     Form("POST", TRUE, "A", FALSE, "", "", 0, 1, FALSE),
     Form("POST", TRUE, "A", FALSE, "", "", 0, 1, TRUE)}

NoSubmission ==
    [pc |-> "idle", form |-> Form("GET", FALSE, "", FALSE, "", "", 0, 0, FALSE),
     resp |-> 0, wrote |-> {}]

\* the setup form of a specification that does not exercise it
BootIdle == sub = [s \in Subs |-> NoSubmission]

\* Validate that accepts a form without a device
Validate_NoDeviceCheck(f) ==
    IF f.method # "POST" THEN 405
    ELSE IF ~f.decodes THEN 400
    ELSE IF f.Title = "" THEN 400
    ELSE IF f.EnableAuth /\ (f.Username = "" \/ f.Password = "") THEN 400
    ELSE IF f.EnableAuth /\ f.JWTKeyLen # KeyLen THEN 400
    ELSE 0

\* the checks of lines 103-161: the status of the rejection, 0 when the
\* form passes
Validate(f) ==
    IF f.method # "POST" THEN 405
    ELSE IF ~f.decodes THEN 400
    ELSE IF f.Title = "" THEN 400
    ELSE IF f.EnableAuth /\ (f.Username = "" \/ f.Password = "") THEN 400
    ELSE IF f.EnableAuth /\ f.JWTKeyLen # KeyLen THEN 400
    ELSE IF f.devices = 0 THEN 400
    ELSE 0

\* createConfig as LoadConfig will read it; the devices go under the key
\* bitaxe_instances, which is no field of Config
createConfig(f) ==
    [EmptyObj EXCEPT !["title"] = Str(f.Title),
                     !["cookie_max_age"] = Num(DefaultCookieMaxAge),
                     !["disable_authentication"] = Bool(~f.EnableAuth),
                     !["disable_settings"] = Bool(FALSE),
                     !["disable_configurations"] = Bool(FALSE),
                     !["configuration_outdated"] = Bool(FALSE)]

\* A submission arrives at dynamicHandler.ServeHTTP in bootstrap mode and
\* finds the files incomplete (part_001 lines 42-43)
SubmitArrive(s, f) ==
    /\ UNCHANGED <<fanVars, cfgVars, gateVars, schedVars, hotVars>>
    /\ sub[s].pc = "idle"
    /\ f \in BootForms
    /\ isBootstrapMode
    /\ ~CheckConfigFilesExist
    /\ sub' = [sub EXCEPT ![s].pc = "routed", ![s].form = f]

\* the gate hands the request to the handler the flag names (part_001
\* lines 71-75); HandleBootstrapSubmit validates it (lines 103-161)
SubmitValidate(s) ==
    /\ UNCHANGED <<fanVars, cfgVars, gateVars, schedVars, hotVars>>
    /\ sub[s].pc = "routed"
    /\ sub' = [sub EXCEPT ![s].pc = IF isBootstrapMode /\ Validate(sub[s].form) = 0
                                    THEN "mkdir" ELSE "done",
                          ![s].resp = IF isBootstrapMode THEN Validate(sub[s].form)
                                      ELSE 404]

\* os.MkdirAll(configDir, 0755) (lines 164-170)
SubmitMkdir(s, ok) ==
    /\ UNCHANGED <<fanVars, cfgVars, gateVars, schedVars, hotVars>>
    /\ sub[s].pc = "mkdir"
    /\ ok \in BOOLEAN
    /\ sub' = [sub EXCEPT ![s].pc = IF ok THEN "config" ELSE "done",
                          ![s].resp = IF ok THEN 0 ELSE 500]

\* saveConfigJSON (lines 173-180): os.WriteFile writes the document, fails
\* to open the file, or fails after truncating it
SubmitSaveConfig(s, outcome) ==
    /\ UNCHANGED <<fanVars, schedVars, hotVars>>
    /\ sub[s].pc = "config"
    /\ outcome \in WriteOutcomes
    /\ file' = CASE outcome = "ok" -> JsonFile(createConfig(sub[s].form))
                 [] outcome = "openfail" -> file
                 [] outcome = "writefail" -> GarbageFile
    /\ sub' = [sub EXCEPT ![s].pc = IF outcome = "ok" THEN "access" ELSE "done",
                          ![s].resp = IF outcome = "ok" THEN 0 ELSE 500,
                          ![s].wrote = IF outcome = "openfail" THEN @
                                       ELSE @ \cup {"config.json"}]
    /\ UNCHANGED <<m_config, heap, mu, cth, opsLeft, restarts, lastWriter, durable>>
    /\ UNCHANGED gateVars

\* saveAccessJSON (lines 183-190, 203-205): its error ends the submission
\* when authentication is enabled and is only printed when it is not
SubmitSaveAccess(s, outcome) ==
    /\ UNCHANGED <<fanVars, cfgVars, schedVars, hotVars>>
    /\ sub[s].pc = "access"
    /\ outcome \in WriteOutcomes
    /\ accessFile' = IF outcome = "openfail" THEN accessFile ELSE "present"
    /\ sub' = [sub EXCEPT ![s].pc = IF outcome # "ok" /\ sub[s].form.EnableAuth
                                    THEN "done" ELSE "jwt",
                          ![s].resp = IF outcome # "ok" /\ sub[s].form.EnableAuth
                                      THEN 500 ELSE 0,
                          ![s].wrote = IF outcome = "openfail" THEN @
                                       ELSE @ \cup {"access.json"}]
    /\ UNCHANGED <<jwtFile, isBootstrapMode, normalHandler, jwtService, req>>

\* saveJWTKeyJSON with the submitted key or a generated one (lines 193-199,
\* 207-210), then saveRPCConfigJSON when a node is enabled (lines 214-224):
\* rpcOk is its outcome; then the answer (lines 226-231)
SubmitSaveJwt(s, outcome, rpcOk) ==
    /\ UNCHANGED <<fanVars, cfgVars, schedVars, hotVars>>
    /\ sub[s].pc = "jwt"
    /\ outcome \in WriteOutcomes
    /\ rpcOk \in BOOLEAN
    /\ (~rpcOk) => sub[s].form.EnableCryptoNode
    /\ jwtFile' = CASE outcome = "ok" -> "valid"
                    [] outcome = "openfail" -> jwtFile
                    [] outcome = "writefail" -> "invalid"
    /\ sub' = [sub EXCEPT ![s].pc = "done",
                          ![s].resp = IF outcome # "ok" /\ sub[s].form.EnableAuth THEN 500
                                      ELSE IF ~rpcOk THEN 500
                                      ELSE 200,
                          ![s].wrote = IF outcome = "openfail" THEN @
                                       ELSE @ \cup {"jsonWebTokenKey.json"}]
    /\ UNCHANGED <<accessFile, isBootstrapMode, normalHandler, jwtService, req>>

\* the gate's requests and the submissions of the setup form
BootNext ==
    \/ \E r \in Reqs :
         \/ GateCheckMode(r)
         \/ GateCheckFiles(r)
         \/ GateInitJWT(r)
         \/ GateLoadConfig(r)
         \/ GateSwitch(r)
         \/ \E field \in {"normalHandler", "isBootstrapMode"} : GatePublish(r, field)
         \/ GateRoute(r)
    \/ \E s \in Subs :
         \/ \E f \in BootForms : SubmitArrive(s, f)
         \/ SubmitValidate(s)
         \/ \E ok \in BOOLEAN : SubmitMkdir(s, ok)
         \/ \E outcome \in WriteOutcomes : SubmitSaveConfig(s, outcome)
         \/ \E outcome \in WriteOutcomes : SubmitSaveAccess(s, outcome)
         \/ \E outcome \in WriteOutcomes, rpcOk \in BOOLEAN : SubmitSaveJwt(s, outcome, rpcOk)

\* ------------------------------------------------------------------------
\* The server as a whole: run(), the gate, the configuration endpoint and
\* the scheduler run() may have started
\* ------------------------------------------------------------------------
\* a config.json with one device and data collection on or off
AppConfigObj(enabled) ==
    [EmptyObj EXCEPT !["title"] = Str("A"), !["axeos_instances"] = List(1),
                     !["data_collection_enabled"] = Bool(enabled)]
AppConfigFiles == {JsonFile(AppConfigObj(TRUE)), JsonFile(AppConfigObj(FALSE))}

\* what the scheduler's LoadConfig finds in such a file
AppSchedConf == SchedConf(TRUE, <<"d1">>, FALSE, <<>>, FALSE, <<>>)

\* schedManager is nil, or Start was never called on it
AppSchedulerStopped ==
    /\ s_cancel = NULL
    /\ s_tasks = <<>>
    /\ s_wg = 0
    /\ gr = [k \in TaskNames |-> NoGoroutine]

\* schedManager.Start() has returned nil: the context is there, the tasks
\* are registered and one goroutine per task is started
AppSchedulerStarted ==
    LET tasks == registerTasks(SchedLoad(sconf))
        names == {tasks[i].Name : i \in 1..Len(tasks)}
        interval(k) == (CHOOSE i \in 1..Len(tasks) : tasks[i].Name = k)
    IN /\ s_cancel = "set"
       /\ s_tasks = tasks
       /\ s_wg = Len(tasks)
       /\ gr = [k \in TaskNames |->
                  IF k \in names
                  THEN [NoGoroutine EXCEPT !.pc = "spawned",
                                           !.interval = tasks[interval(k)].Interval]
                  ELSE NoGoroutine]

\* run() with the three files in place: InitJWTService, LoadConfig, and the
\* scheduler started if cfg.DataCollectionEnabled
AppInitNormal(enabled) ==
    /\ file = JsonFile(AppConfigObj(enabled))
    /\ accessFile = "present"
    /\ jwtFile = "valid"
    /\ isBootstrapMode = FALSE
    /\ normalHandler = MainHandler
    /\ jwtService = "set"
    /\ m_config = 1
    /\ heap = [EmptyHeap EXCEPT ![1] =
                 [live |-> TRUE, cfg |-> ApplyDefaults(Unmarshal(AppConfigObj(enabled))),
                  src |-> AppConfigObj(enabled)]]
    /\ IF ApplyDefaults(Unmarshal(AppConfigObj(enabled))).DataCollectionEnabled
       THEN AppSchedulerStarted
       ELSE AppSchedulerStopped

\* run() up to ListenAndServe
AppInit ==
    /\ sconf = AppSchedConf
    /\ \/ GateInitBootstrap /\ AppSchedulerStopped
       \/ \E enabled \in BOOLEAN : AppInitNormal(enabled)
    /\ routerCfg = m_config
    /\ req = [r \in Reqs |-> NewReq]
    /\ mu = "free"
    /\ cth = [t \in CfgThreads |-> IdleThread]
    /\ opsLeft = MaxConfigOps - 1
    /\ restarts = 0
    /\ lastWriter = "none"
    /\ durable = NoPatch
    /\ ctxDone = FALSE
    /\ s_mu = "free"
    /\ sc = [c \in Callers |-> IdleCaller]
    /\ sink = [p \in SchedPeers |-> 0]
    /\ callsLeft = 0
    /\ hreq = NoRequest

\* PATCH /api/configuration of a server in normal mode
AppPatchRequest(t, patch) ==
    /\ ~isBootstrapMode
    /\ normalHandler # NoHandler
    /\ routerCfg # 0
    /\ PatchRequest(t, patch)

\* the operator puts a config.json in place where there is none
AppConfigPut(content) ==
    /\ file = MissingFile
    /\ ConfigFileWrite(content)

AppNext ==
    \/ \E r \in Reqs :
         \/ GateCheckMode(r)
         \/ GateCheckFiles(r)
         \/ GateInitJWT(r)
         \/ GateLoadConfig(r)
         \/ GateSwitch(r)
         \/ \E field \in {"normalHandler", "isBootstrapMode"} : GatePublish(r, field)
         \/ GateRoute(r)
    \/ \E content \in AppConfigFiles : AppConfigPut(content)
    \/ AccessFileWrite
    \/ JwtFileWrite("valid")
    \/ \E t \in CfgThreads :
         \/ \E patch \in CollectionPatches : AppPatchRequest(t, patch)
         \/ UpdateRead(t)
         \/ \E outcome \in WriteOutcomes : UpdateWrite(t, outcome)
         \/ UpdateUnlock(t)
         \/ LoadLock(t)
         \/ LoadRead(t)
         \/ LoadDefaults(t)
         \/ LoadStore(t)
         \/ LoadUnlock(t)
         \/ UpdateRelock(t)
         \/ UpdateReturn(t)
         \/ CallReturn(t)

\* ------------------------------------------------------------------------
\* Specifications: one per component, the others at rest
\* ------------------------------------------------------------------------
InitFan == FanInit /\ CfgIdle /\ GateIdle /\ SchedIdle /\ HotIdle /\ BootIdle
SpecFan == InitFan /\ [][FanNext]_vars
\* every goroutine that can take a step is scheduled in the end
FanFairness == WF_vars(FanNext)
SpecFanLive == InitFan /\ [][FanNext]_vars /\ FanFairness

InitCfg == CfgInit /\ FanIdle /\ GateIdle /\ SchedIdle /\ HotIdle /\ BootIdle
SpecCfg == InitCfg /\ [][CfgNext]_vars

InitMerge == CfgInit /\ FanIdle /\ GateIdle /\ SchedIdle /\ HotIdle /\ BootIdle
SpecMerge == InitMerge /\ [][MergeNext]_vars

InitGate == GateInit /\ FanIdle /\ SchedIdle /\ hreq = NoRequest /\ BootIdle
SpecGate == InitGate /\ [][GateNext]_vars

\* run() with the three files missing, and no submission yet
InitBoot == GateInit /\ isBootstrapMode /\ FanIdle /\ SchedIdle /\ hreq = NoRequest /\ BootIdle
SpecBoot == InitBoot /\ [][BootNext]_vars

InitSched == SchedInit /\ FanIdle /\ CfgIdle /\ GateIdle /\ HotIdle /\ BootIdle
SpecSched == InitSched /\ [][SchedNext]_vars

\* What the runtime guarantees to happen: a goroutine that can take its
\* next step takes it, and a call with a bound returns. The node RPC client
\* has a 30 second timeout; the device and the pool collection use http.Get,
\* whose client has none, so nothing makes their calls return.
SchedFairness ==
    /\ \A c \in Callers :
          /\ WF_vars(StartSpawn(c))
          /\ WF_vars(StartReturn(c))
          /\ WF_vars(StopWait(c))
    /\ \A k \in TaskNames :
          /\ WF_vars(RunTaskBegin(k))
          /\ WF_vars(FnLoad(k))
          /\ WF_vars(FnPeer(k))
          /\ WF_vars(RunTaskExit(k))
    /\ WF_vars(\E a \in SchedAnswers : FnCollect("nodes", a))

SpecSchedLive == InitSched /\ [][SchedNext]_vars /\ SchedFairness

\* a stopped scheduler that is started and stopped once
InitReload ==
    /\ sconf \in ReloadConfigs
    /\ s_cancel = NULL
    /\ ctxDone = FALSE
    /\ s_tasks = <<>>
    /\ s_wg = 0
    /\ s_mu = "free"
    /\ sc = [c \in Callers |-> IdleCaller]
    /\ gr = [k \in TaskNames |-> NoGoroutine]
    /\ sink = [p \in SchedPeers |-> 0]
    /\ callsLeft = MaxSchedCalls - 1
    /\ FanIdle /\ CfgIdle /\ GateIdle /\ HotIdle /\ BootIdle
SpecReload == InitReload /\ [][ReloadNext]_vars

InitHot == HotInit /\ FanIdle /\ SchedIdle /\ BootIdle
SpecHot == InitHot /\ [][HotNext]_vars

InitApp == AppInit /\ FanIdle /\ BootIdle
SpecApp == InitApp /\ [][AppNext]_vars

\* ------------------------------------------------------------------------
\* Configuration: properties
\* ------------------------------------------------------------------------
\* a struct as LoadConfig builds it from one content of the file
IsLoadedSnapshot(h) == TypeOk(h.src) /\ h.cfg = ApplyDefaults(Unmarshal(h.src))

\* C3: a reader never sees a torn snapshot, whatever LoadConfig and
\* UpdateConfig calls run beside it: what GetConfig hands out is the struct
\* one LoadConfig built from one content of the file, with every default
\* applied, and the fields the reader takes from it afterwards are the
\* fields it had when GetConfig returned it.
C3_NoTornSnapshot ==
    /\ m_config # 0 => IsLoadedSnapshot(heap[m_config])
    /\ \A t \in CfgThreads :
         (cth[t].op = "get" /\ cth[t].ptr # 0) =>
             /\ IsLoadedSnapshot(cth[t].seen[1])
             /\ cth[t].pc = "ret" => cth[t].obs = FieldsOf(cth[t].seen[1].cfg)

\* C3 witness: a reader has read all fields of the snapshot it was handed
\* while a write installed another snapshot that differs in two fields
C3_Witness ==
    \E t \in CfgThreads :
        /\ cth[t].op = "get" /\ cth[t].pc = "ret" /\ cth[t].ptr # 0
        /\ m_config # 0 /\ m_config # cth[t].ptr
        /\ heap[m_config].cfg.Title # cth[t].obs[1]
        /\ heap[m_config].cfg.CollectionIntervalSeconds # cth[t].obs[3]

\* the value of key k in a loaded Configuration, as a JSON value
FieldOf(c, k) ==
    CASE k = "title" -> Str(c.Title)
      [] k = "cookie_max_age" -> Num(c.CookieMaxAge)
      [] k = "collection_interval_seconds" -> Num(c.CollectionIntervalSeconds)
      [] k = "data_retention_days" -> Num(c.DataRetentionDays)
      [] k = "configuration_outdated" -> Bool(c.ConfigurationOutdated)
      [] k = "disable_authentication" -> Bool(c.DisableAuthentication)
      [] k = "disable_settings" -> Bool(c.DisableSettings)
      [] k = "disable_configurations" -> Bool(c.DisableConfigurations)
      [] k = "axeos_instances" -> List(c.AxeosInstances)
      [] k = "data_collection_enabled" -> Bool(c.DataCollectionEnabled)
      [] OTHER -> Absent

\* a LoadConfig that began after an UpdateConfig returned successfully, with
\* no other write to the file since, has returned
LoadAfterMerge(t) ==
    cth[t].op = "load" /\ cth[t].pc = "ret" /\ cth[t].expect # NoPatch

\* C4 as stated: after UpdateConfig({k: v}) returned successfully, a later
\* LoadConfig returns a configuration in which k has value v, for every key
\* and value.
C4_RoundTripEveryValue ==
    \A t \in CfgThreads : LoadAfterMerge(t) =>
        /\ cth[t].err = ""
        /\ \A k \in FileKeys : cth[t].expect[k] # Absent =>
               FieldOf(heap[cth[t].addr].cfg, k) = cth[t].expect[k]

\* what LoadConfig yields for a key that UpdateConfig set to v
LoadedValue(k, v) ==
    CASE k = "cookie_max_age" /\ v = Num(0) -> Num(DefaultCookieMaxAge)
      [] k = "collection_interval_seconds" /\ v = Num(0) ->
             Num(DefaultCollectionIntervalSeconds)
      [] k = "data_retention_days" /\ v = Num(0) -> Num(DefaultDataRetentionDays)
      [] k = "configuration_outdated" -> Bool(FALSE)
      [] OTHER -> v

ConfigFields == FileKeys \ {"custom"}

\* C4 amended: after UpdateConfig({k: v}) returned successfully and with no
\* other write to the file since, a later LoadConfig, also one of a fresh
\* process, succeeds and returns a configuration in which every patched key
\* that is a field of Config has value v, except that a zero cookie_max_age,
\* collection_interval_seconds or data_retention_days loads as its default
\* and configuration_outdated loads as false.
C4_RoundTripDurability ==
    \A t \in CfgThreads : LoadAfterMerge(t) =>
        /\ cth[t].err = ""
        /\ \A k \in ConfigFields : cth[t].expect[k] # Absent =>
               FieldOf(heap[cth[t].addr].cfg, k) = LoadedValue(k, cth[t].expect[k])

\* C4 witness: a fresh process has loaded the title a successful
\* UpdateConfig of the previous process set
C4_Witness ==
    \E t \in CfgThreads :
        /\ LoadAfterMerge(t)
        /\ restarts = 1
        /\ cth[t].expect["title"] = Str("B")
        /\ cth[t].err = ""
        /\ heap[cth[t].addr].cfg.Title = "B"

\* the UpdateConfig of t put its patch into the file, and a key of the patch
\* shows in the current snapshot with the value the patch gave it, which it
\* did not have before the UpdateConfig began
PatchVisible(t) ==
    \E k \in ConfigFields :
        /\ cth[t].wrote
        /\ cth[t].patch[k] # Absent
        /\ FieldOf(CurrentConfig, k) = LoadedValue(k, cth[t].patch[k])
        /\ FieldOf(cth[t].before, k) # LoadedValue(k, cth[t].patch[k])

\* C12: once an UpdateConfig has returned an error, no part of its patch
\* is visible in the snapshot GetConfig returns.
C12_FailedMergeInvisible ==
    \A t \in CfgThreads :
        (cth[t].op = "merge" /\ cth[t].pc = "ret" /\ cth[t].err # "") => ~PatchVisible(t)

\* C13: the snapshot in memory changes only to what the file holds at that
\* moment, so memory never runs ahead of the file, and after a crash at any
\* point of an UpdateConfig the LoadConfig of the next process succeeds on
\* the file it finds.
C13_WriteBeforeSwapRecoverable ==
    /\ [][(m_config' # m_config /\ m_config' # 0) =>
            (file.st = "json" /\ heap'[m_config'].src = file.obj)]_vars
    /\ [](\A t \in CfgThreads :
            (cth[t].op = "load" /\ cth[t].pc = "ret" /\ restarts > 0
             /\ file.st # "missing") => cth[t].err = "")

\* C14: the file an UpdateConfig writes holds, for every key of the patch,
\* exactly the patch's value (a nested object replaced as a whole) and, for
\* every other key, the value the file had.
C14_FlatKeyMerge ==
    [][\A t \in CfgThreads :
        (cth[t].pc = "m_write" /\ cth'[t].pc = "m_unlock") =>
            /\ file'.st = "json"
            /\ \A k \in FileKeys :
                 file'.obj[k] = IF cth[t].patch[k] # Absent THEN cth[t].patch[k]
                                ELSE file.obj[k]]_vars

\* an UpdateConfig has written a file in which the nested object of its
\* patch replaced the one the file had, while the keys outside the patch,
\* one of them added by an earlier UpdateConfig, are as they were
C14_Witness ==
    \E t \in CfgThreads :
        /\ cth[t].op = "merge" /\ cth[t].pc = "m_unlock"
        /\ cth[t].patch["custom"] = Obj(2)
        /\ file.obj["custom"] = Obj(2)
        /\ file.obj["collection_interval_seconds"] = Num(5)
        /\ file.obj["data_retention_days"] = Num(7)

\* ------------------------------------------------------------------------
\* Fan-out: properties
\* ------------------------------------------------------------------------
FanLabels == {PeerLabel(fanClass, fanCfg, p) : p \in FanPeers}
PeersLabelled(n) == {p \in FanPeers : PeerLabel(fanClass, fanCfg, p) = n}
Delivered == chan \o results
RoundOver == fanPc \in {"respond", "done"}
PeerFailed(p) == IF fanClass = "nodes" THEN gState[p].ans # {}
                 ELSE gState[p].ans \in FailedAnswers

\* C1: one fan-out round yields exactly one outcome per configured peer,
\* carrying that peer's name, whatever each peer answers: a goroutine that
\* has taken its peer's answer has delivered an outcome, and when the round
\* is over the result holds, for every name, as many outcomes as peers are
\* configured under that name and nothing else.
C1_OneOutcomePerPeer ==
    /\ \A p \in FanPeers : gState[p].pc \in {"done", "panicked"} =>
           \E i \in DOMAIN Delivered : Delivered[i].id = PeerLabel(fanClass, fanCfg, p)
    /\ RoundOver =>
           /\ Len(results) = Cardinality(FanPeers)
           /\ \A n \in FanLabels :
                 Cardinality({i \in DOMAIN results : results[i].id = n})
                     = Cardinality(PeersLabelled(n))

\* C2: when the aggregate endpoint has answered, its status is 200 and, for
\* every name, the result holds exactly one "Error" outcome with a message
\* per peer of that name whose call failed and exactly one non-error outcome
\* per peer of that name whose call succeeded, also when every peer failed.
C2_FailureIsPerPeerData ==
    /\ httpStatus \in {0, 200}
    /\ fanPc = "done" =>
          /\ httpStatus = 200
          /\ \A n \in FanLabels :
                /\ Cardinality({i \in DOMAIN results :
                        results[i].id = n /\ results[i].status = "Error"
                        /\ results[i].message # <<>> /\ results[i].payload = {}})
                     = Cardinality({p \in PeersLabelled(n) : PeerFailed(p)})
                /\ Cardinality({i \in DOMAIN results :
                        results[i].id = n /\ results[i].status # "Error"})
                     = Cardinality({p \in PeersLabelled(n) : ~PeerFailed(p)})

\* C2 witness: three device peers, one answers HTTP 500 and two answer valid
\* JSON; the endpoint has answered 200 with one Error entry and two payloads
C2_Witness ==
    /\ fanClass = "devices"
    /\ fanPc = "done"
    /\ httpStatus = 200
    /\ Cardinality(FanPeers) = 3
    /\ Cardinality({p \in FanPeers : gState[p].ans = "status500"}) = 1
    /\ Cardinality({p \in FanPeers : gState[p].ans = "ok"}) = 2
    /\ Cardinality({i \in DOMAIN results : results[i].status = "Error"}) = 1
    /\ Len(results) = 3


\* ------------------------------------------------------------------------
\* Gate: properties
\* ------------------------------------------------------------------------
\* the requests that carried the initialization through to a new router
Initializers == {r \in Reqs : req[r].inited}
Answered(r) == req[r].resp \in {"bootstrap", "normal", "500"}

\* C5: whatever the interleaving of the requests, the initialization of the
\* normal mode (secret, configuration, router) is carried through at most
\* once.
C5_InitOnce == Cardinality(Initializers) <= 1

\* C6: every request that has left ServeHTTP was answered once, by the
\* bootstrap handler, by the normal handler or with the 500 of a failed
\* initialization.
C6_EveryRequestAnswered == \A r \in Reqs : req[r].pc = "done" => Answered(r)

\* C7: the mode flag never goes from Normal back to Bootstrap, whatever
\* happens to the files, and a request is handed to the bootstrap handler
\* only while the flag says Bootstrap.
C7_ModeMonotonic ==
    [][/\ ~isBootstrapMode => ~isBootstrapMode'
       /\ \A r \in Reqs :
            (req[r].resp # "bootstrap" /\ req'[r].resp = "bootstrap")
                => isBootstrapMode]_vars

\* the gate is Normal, the files are gone, and a request routed after that
\* went to the normal handler
C7_Witness ==
    /\ ~isBootstrapMode
    /\ ~CheckConfigFilesExist
    /\ \E r \in Reqs : req[r].resp = "normal" /\ req[r].noArts

\* C8: a request whose initialization fails is answered 500 and writes
\* neither the router nor the flag, so the gate is as it was and the next
\* request tries again.
C8_FailedInitLeavesBootstrap ==
    [][\A r \in Reqs :
        /\ req'[r].failed =>
              /\ req'[r].pc = "done"
              /\ req'[r].resp = "500"
              /\ ~req'[r].inited /\ ~req'[r].pendH /\ ~req'[r].pendF
              /\ normalHandler' # r
        /\ (req[r].resp # "500" /\ req'[r].resp = "500") =>
              /\ req'[r].failed
              /\ UNCHANGED <<isBootstrapMode, normalHandler>>]_vars

\* a request got the 500 while the gate stayed Bootstrap, and a request
\* that came after it carried the initialization through
C8_Witness ==
    \E r, q \in Reqs :
        /\ req[r].resp = "500"
        /\ req[q].after500
        /\ req[q].inited
        /\ req[q].resp = "normal"
        /\ ~isBootstrapMode
        /\ normalHandler = q

\* ------------------------------------------------------------------------
\* Scheduler: properties
\* ------------------------------------------------------------------------
AllExited == \A k \in TaskNames : ~Alive(k)

\* C9: Stop returns only when every task goroutine has exited, and while
\* the scheduler is stopped no goroutine is alive and nothing is inserted.
C9_StopWaitsForTasks ==
    [][/\ s_cancel' = NULL => AllExited'
       /\ \A c \in Callers :
            (sc[c].pc = "wait" /\ sc'[c].pc = "ret") => AllExited /\ AllExited'
       /\ sink' # sink => s_cancel # NULL /\ s_cancel' # NULL]_vars

\* a Stop has returned after waiting for goroutines that had inserted
C9_Witness ==
    /\ \E c \in Callers : sc[c].op = "stop" /\ sc[c].pc = "ret" /\ sc[c].waited
    /\ s_cancel = NULL
    /\ \E k \in TaskNames : gr[k].pc = "exited" /\ gr[k].ticks > 0
    /\ \E p \in SchedPeers : sink[p] > 0

\* C10: a Stop on a stopped scheduler returns at once and changes nothing
\* of the scheduler.
C10_StopOnStoppedIsNoop ==
    [][\A c \in Callers :
        (sc[c].pc = "idle" /\ sc'[c].op = "stop" /\ s_cancel = NULL) =>
            /\ sc'[c].pc = "ret"
            /\ ~sc'[c].waited
            /\ UNCHANGED <<s_cancel, ctxDone, s_tasks, s_wg, s_mu, gr, sink>>]_vars

\* a Stop returned as a no-op on a scheduler that an earlier Stop had stopped
C10_Witness ==
    /\ \E c \in Callers : sc[c].op = "stop" /\ sc[c].pc = "ret" /\ ~sc[c].waited
    /\ s_cancel = NULL
    /\ ctxDone
    /\ \E k \in TaskNames : gr[k].pc = "exited"

\* C11: a Start on a running scheduler returns the "already running" error
\* and leaves the tasks, the goroutines, the WaitGroup and the context as
\* they are.
C11_StartOnRunningRejected ==
    [][\A c \in Callers :
        (sc[c].pc = "idle" /\ sc'[c].op = "start" /\ s_cancel # NULL) =>
            /\ sc'[c].pc = "ret"
            /\ sc'[c].err = "scheduler already running"
            /\ UNCHANGED <<s_cancel, ctxDone, s_tasks, s_wg, s_mu, gr, sink>>]_vars

\* a Start was rejected while task goroutines of the run were alive
C11_Witness ==
    /\ \E c \in Callers : sc[c].op = "start" /\ sc[c].pc = "ret"
                          /\ sc[c].err = "scheduler already running"
    /\ s_cancel # NULL
    /\ ~ctxDone
    /\ s_wg > 0
    /\ \E k \in TaskNames : Alive(k)

\* C15: with a collection interval of 0 or none in the file the loaded
\* configuration holds 300 seconds and every registered task and every
\* ticker has 300 seconds; no task and no ticker ever has an interval that
\* is not positive; a retention of 0 or none loads as 30 days.
C15_IntervalDefaults ==
    /\ sconf.CollectionIntervalSeconds = 0 =>
          /\ SchedLoad(sconf).CollectionIntervalSeconds = 300
          /\ \A i \in DOMAIN s_tasks : s_tasks[i].Interval = 300
          /\ \A k \in TaskNames : gr[k].pc \notin {"none", "spawned"} => gr[k].ticker = 300
    /\ sconf.DataRetentionDays = 0 => SchedLoad(sconf).DataRetentionDays = 30
    /\ \A i \in DOMAIN s_tasks : s_tasks[i].Interval > 0
    /\ \A k \in TaskNames : gr[k].pc \notin {"none", "spawned"} => gr[k].ticker > 0

\* two tasks of a configuration without interval run on 300 second tickers
\* and one of them has run on a tick
C15_Witness ==
    /\ sconf.CollectionIntervalSeconds = 0
    /\ Len(s_tasks) > 0
    /\ \E k \in TaskNames : Alive(k) /\ gr[k].ticker = 300 /\ gr[k].ticks > 0

\* C16: once a PATCH of the configuration has succeeded, every later
\* request decides from the updated snapshot: the auth middleware, the
\* instance handlers, the configuration endpoint and the aggregate endpoint
\* see the value the patch set
C16_HotReload == hreq.want # Absent => hreq.saw = hreq.want

\* a snapshot a reader can hold: the current one, one GetConfig or LoadConfig
\* returned, or one a handler captured
HandedOut(a) ==
    /\ a # 0
    /\ \/ a = m_config
       \/ a = routerCfg
       \/ \E t \in CfgThreads : cth[t].ptr = a
       \/ \E r \in Reqs : req[r].cfg = a

\* C17: a snapshot handed to a reader is never modified afterwards: as long
\* as somebody holds it its fields stay what they were, and every Load or
\* Merge installs a record that nobody held before
C17_SnapshotsImmutable ==
    [][/\ \A a \in Addrs : (HandedOut(a) /\ HandedOut(a)') => heap'[a] = heap[a]
       /\ (m_config' # m_config /\ m_config' # 0) => ~HandedOut(m_config')]_vars

\* C17 witness: a reader has finished reading the snapshot it was handed,
\* which is still intact, after a write installed a different one
C17_Witness ==
    \E t \in CfgThreads :
        /\ cth[t].op = "get" /\ cth[t].pc = "ret" /\ cth[t].ptr # 0
        /\ m_config # 0 /\ m_config # cth[t].ptr
        /\ heap[cth[t].ptr] = cth[t].seen[1]
        /\ heap[m_config].cfg # heap[cth[t].ptr].cfg

\* the entries of the result that report, under name n, a node whose failed
\* sub-calls were exactly a: all four payloads and no message when none
\* failed, else status "Error", no payload and one message per failed call
NodeEntries(n, a) ==
    {i \in DOMAIN results :
        /\ results[i].id = n
        /\ {results[i].message[j] : j \in DOMAIN results[i].message} = a
        /\ Len(results[i].message) = Cardinality(a)
        /\ results[i].status = (IF a = {} THEN "online" ELSE "Error")
        /\ results[i].payload = (IF a = {} THEN SubCallSet ELSE {})}

\* C18: node fan-out is all-or-nothing per peer and independent across
\* peers: no entry of the result mixes payloads with an error, and every
\* node is reported by what its own four sub-calls did, whatever the other
\* nodes of the round answered
C18_NodeAllOrNothing ==
    (fanClass = "nodes" /\ fanPc = "done") =>
        /\ \A i \in DOMAIN results :
              \/ results[i].status = "Error" /\ results[i].payload = {}
                    /\ results[i].message # <<>>
              \/ results[i].status = "online" /\ results[i].payload = SubCallSet
                    /\ results[i].message = <<>>
        /\ \A n \in FanLabels : \A a \in NodeAnswers :
              Cardinality(NodeEntries(n, a))
                 = Cardinality({p \in PeersLabelled(n) : gState[p].ans = a})

\* C18 witness: a round over two nodes has ended, one node lost two of its
\* sub-calls and is an Error entry with two messages, the other is online
C18_Witness ==
    /\ fanClass = "nodes" /\ fanPc = "done"
    /\ \E p, q \in FanPeers :
          /\ gState[p].ans = {"networkTotals", "networkInfo"}
          /\ gState[q].ans = {}
    /\ \E i, j \in DOMAIN results :
          /\ results[i].status = "Error" /\ Len(results[i].message) = 2
          /\ results[j].status = "online" /\ results[j].payload = SubCallSet

\* C19: within one run of a collection task a peer's failure (fetch or
\* insert) does not end the run: a run that no cancellation cut short has
\* polled every peer of the task, and each poll inserted the peer's record
\* when its collection succeeded and left the sink alone when it failed
C19_PeerFailureIsolated ==
    /\ [](\A k \in TaskNames :
            (gr[k].pc = "select"
             /\ gr[k].err \notin {"failed to load config", "context canceled"}) =>
                gr[k].i = Len(TaskPeers(k, sconf)) + 1)
    /\ [][\A k \in TaskNames :
            gr[k].pc = "collect" /\ gr'[k].pc # "collect" =>
                /\ gr'[k].out = "ok" =>
                      sink' = [sink EXCEPT ![TaskPeers(k, sconf)[gr[k].i]] = @ + 1]
                /\ gr'[k].out # "ok" => sink' = sink]_vars

\* C19 witness: the first run over two miners has ended with no
\* cancellation; the first miner failed, the second one's record is stored
C19_Witness ==
    /\ ~ctxDone
    /\ gr["miners"].pc = "select" /\ gr["miners"].ticks = 0 /\ gr["miners"].err = ""
    /\ Len(TaskPeers("miners", sconf)) = 2
    /\ sink[TaskPeers("miners", sconf)[1]] = 0
    /\ sink[TaskPeers("miners", sconf)[2]] = 1

\* C20: a task runs its collection function at once when it is launched,
\* before it waits for a tick, and then once for every tick it takes; it
\* ends on cancellation only, so an error of the collection function leaves
\* it waiting for the next tick
C20_RunNowThenPerTick ==
    /\ [](\A k \in TaskNames :
            /\ gr[k].pc \in {"peer", "collect", "select", "exited"} =>
                  gr[k].runs = gr[k].ticks + 1
            /\ gr[k].pc = "fn" => gr[k].runs = gr[k].ticks)
    /\ [][\A k \in TaskNames :
            /\ (gr[k].pc = "spawned" /\ gr'[k].pc # "spawned") =>
                  (gr'[k].pc = "fn" /\ gr'[k].ticks = 0)
            /\ (gr[k].pc # "exited" /\ gr'[k].pc = "exited") =>
                  (gr[k].pc = "select" /\ ctxDone)
            /\ (gr'[k].errs > gr[k].errs) => gr'[k].pc = "select"]_vars

\* C20 witness: no cancellation, config.json stopped loading after Start;
\* the miners task ran at once and failed, took a tick, ran again and failed
\* again, and waits for the next tick
C20_Witness ==
    /\ ~ctxDone /\ ~sconf.loadable
    /\ gr["miners"].pc = "select" /\ gr["miners"].ticks = 1
    /\ gr["miners"].runs = 2 /\ gr["miners"].errs = 2

\* the steps of LoadConfig and UpdateConfig that read or write config.json
FileSteps == {"l_read", "m_read", "m_write"}

\* C21: Load and Merge hold the write lock for the pointer swap only: a
\* call that is about to read or to write the backing file does not hold
\* the lock, so no GetConfig waits for the file
C21_LockOnlyAroundSwap ==
    \A t \in CfgThreads : cth[t].pc \in FileSteps => mu # t

\* task.Fn of task k is at work
Collecting(k) == gr[k].pc \in {"peer", "collect"}

\* C22: two executions of one task's collection function never overlap: a
\* task has one goroutine at a time, which takes a tick, and starts the
\* next execution, only when the execution before has returned
C22_NoOverlapWithinTask ==
    [][\A k \in TaskNames :
          /\ (gr'[k].ticks > gr[k].ticks) => ~Collecting(k)
          /\ (gr'[k].runs > gr[k].runs) => ~Collecting(k)
          /\ (gr'[k].pc = "spawned" /\ gr[k].pc # "spawned") => ~Alive(k)]_vars

\* C22 witness: the miners task and the pools task are both in the middle
\* of an execution
C22_Witness ==
    /\ gr["miners"].pc = "collect"
    /\ gr["pools"].pc = "collect"

\* what config.json says about collection k: whether it is switched on
\* (the devices have no switch) and whether it names a peer
CollectionEnabled(k) ==
    CASE k = "miners" -> TRUE
      [] k = "pools" -> sconf.MiningCoreEnabled
      [] k = "nodes" -> sconf.CryptNodesEnabled
CollectionEmpty(k) == Len(TaskPeers(k, sconf)) = 0

\* a Start passes its LoadConfig and registers its tasks
StartRegisters == \E c \in Callers : sc[c].pc = "idle" /\ sc'[c].pc = "spawn"
TasksNamed(tasks, k) == {i \in DOMAIN tasks : tasks[i].Name = k}

ConfiguredSeconds == sconf.CollectionIntervalSeconds

\* C24: for a configured interval of c seconds every task Start registers
\* has an interval of max(c, 1) seconds
C24_IntervalIsMaxOfOne ==
    [][(StartRegisters /\ ConfiguredSeconds # 0) =>
          \A i \in DOMAIN s_tasks' :
              s_tasks'[i].Interval
                 = IF ConfiguredSeconds > 1 THEN ConfiguredSeconds ELSE 1]_vars

\* C24 as the code has it: a configured interval of one second or more is
\* the interval of every task Start registers, and any smaller one, zero
\* and the negative ones included, gives the tasks the default of 300
\* seconds
C24_IntervalOrDefault ==
    [][StartRegisters =>
          \A i \in DOMAIN s_tasks' :
              s_tasks'[i].Interval
                 = IF ConfiguredSeconds >= 1 THEN ConfiguredSeconds ELSE 300]_vars

\* C24 witness: Start has run on a configuration with a negative interval
\* and the task it launched has a ticker of 300 seconds
C24_Witness ==
    /\ ConfiguredSeconds < 0
    /\ Len(s_tasks) > 0
    /\ \E k \in TaskNames : Alive(k) /\ gr[k].ticker = 300 /\ gr[k].runs > 0

\* C25: the fan-in channel of a round has room for one outcome per peer
\* goroutine, so a goroutine that has its outcome never finds the channel
\* full and never waits for the consumer
C25_NoProducerBlocks ==
    \A p \in FanPeers : gState[p].pc = "running" => Len(chan) < ChanCap(fanClass, fanCfg)

\* C26: a Stop that found the scheduler running and waits for the tasks
\* returns in the end
C26_StopReturns ==
    \A c \in Callers :
        (sc[c].op = "stop" /\ sc[c].pc = "wait") ~> (sc[c].pc = "ret")

\* C27: once cancellation is signalled no task begins the collection of a
\* further peer, on the walk it is in or on a tick it takes afterwards; the
\* sink changes only through a call that is in flight
C27_NoNewPeerAfterCancel ==
    [][/\ \A k \in TaskNames :
             (ctxDone /\ gr[k].pc # "collect") => gr'[k].pc # "collect"
       /\ sink' # sink => \E k \in TaskNames : gr[k].pc = "collect"]_vars

\* C27 witness: the miners task was cancelled between its two devices: the
\* first one is stored, the second one was not contacted, and the function
\* returned ctx.Err()
C27_Witness ==
    /\ ctxDone
    /\ gr["miners"].pc = "select" /\ gr["miners"].err = "context canceled"
    /\ Len(TaskPeers("miners", sconf)) = 2 /\ gr["miners"].i = 2
    /\ sink[TaskPeers("miners", sconf)[1]] = 1
    /\ sink[TaskPeers("miners", sconf)[2]] = 0

\* IsRunning(): m.cancel != nil
IsRunning == s_cancel # NULL

\* C28: a Start that returns the error of LoadConfig leaves the scheduler
\* stopped: IsRunning() is false, no task goroutine lives, and the next
\* Start is not turned away as "already running"
C28_FailedStartLeavesStopped ==
    [][\A c \in Callers :
          (sc[c].pc = "idle" /\ sc'[c].pc = "ret" /\ sc'[c].op = "start"
           /\ sc'[c].err = "failed to load config") =>
              /\ ~IsRunning'
              /\ \A k \in TaskNames : ~Alive(k)'
              /\ ~StartRejected']_vars

LiveTasks == {k \in TaskNames : Alive(k)}

C30_NormalModeIsBuilt ==
    /\ ~isBootstrapMode => (normalHandler # NoHandler /\ m_config # 0)
    /\ \A r \in Reqs :
          /\ (req[r].pc = "route" /\ ~ViewFlag(r)) =>
                (ViewHandler(r) # NoHandler /\ m_config # 0)
          /\ req[r].pc = "done" => req[r].resp # "dropped"

\* the positions of a LoadConfig or UpdateConfig between a Lock and the
\* Unlock that follows it
LockHeldAt == {"l_read", "l_defaults", "l_store", "l_unlock",
               "m_read", "m_write", "m_unlock", "m_ret"}

\* the positions at which the next statement is an Unlock
UnlockAt == {"l_unlock", "m_unlock", "m_ret"}

\* C31: the configuration lock is held by exactly the thread that is
\* between a Lock and its Unlock, so every Unlock releases a lock its
\* thread holds, nobody waits for a lock whose holder cannot advance, and
\* every return of LoadConfig and UpdateConfig, with or without an error,
\* releases the lock once and leaves it not held by the returning thread
C31_LockBalanced ==
    /\ [](/\ mu \in CfgThreads \cup {"free"}
          /\ \A t \in CfgThreads : (mu = t) <=> (cth[t].pc \in LockHeldAt))
    /\ [][\A t \in CfgThreads :
            /\ (cth[t].pc \in UnlockAt /\ cth'[t].pc # cth[t].pc /\ restarts' = restarts)
                  => (mu = t /\ mu' = "free")
            /\ (cth[t].op \in {"load", "merge"} /\ cth[t].pc # "ret" /\ cth'[t].pc = "ret")
                  => (mu = t /\ mu' = "free")]_vars

\* C31 witness: one UpdateConfig has returned success, through the unlock,
\* the reload and the relock, and another has returned an error; the lock
\* is free
C31_Witness ==
    /\ mu = "free"
    /\ \E t, u \in CfgThreads :
          /\ cth[t].op = "merge" /\ cth[t].pc = "ret" /\ cth[t].err = "" /\ cth[t].wrote
          /\ cth[u].op = "merge" /\ cth[u].pc = "ret" /\ cth[u].err # ""

\* the keys a patch names
PatchKeys(p) == {k \in FileKeys : p[k] # Absent}

\* two UpdateConfig calls on different keys have both returned success
BothMerged(t, u) ==
    /\ t # u
    /\ cth[t].op = "merge" /\ cth[t].pc = "ret" /\ cth[t].err = ""
    /\ cth[u].op = "merge" /\ cth[u].pc = "ret" /\ cth[u].err = ""
    /\ PatchKeys(cth[t].patch) \cap PatchKeys(cth[u].patch) = {}

\* C32: when two UpdateConfig calls with patches on different keys have
\* both returned success, however they and the collector's LoadConfig
\* calls interleaved, the file holds every key of both patches and the
\* snapshot GetConfig returns is the load of that file, with the value of
\* every patched field of Config
C32_NoLostUpdate ==
    \A t, u \in CfgThreads : BothMerged(t, u) =>
        /\ file.st = "json"
        /\ \A k \in PatchKeys(cth[t].patch) : file.obj[k] = cth[t].patch[k]
        /\ m_config # 0
        /\ heap[m_config].src = file.obj
        /\ heap[m_config].cfg = ApplyDefaults(Unmarshal(file.obj))
        /\ \A k \in PatchKeys(cth[t].patch) \cap ConfigFields :
              FieldOf(CurrentConfig, k) = LoadedValue(k, cth[t].patch[k])

\* C32 witness: the two calls overlapped (the second wrote before the first
\* had reloaded, so the first call's reload is not the last), the collector
\* has loaded twice, and the title of one patch and the custom key of the
\* other are both in the file
C32_Witness ==
    /\ \E t, u \in CfgThreads :
          /\ BothMerged(t, u)
          /\ cth[t].patch["custom"] # Absent
          /\ cth[u].patch["title"] # Absent
          /\ lastWriter = u
          /\ cth[t].addr = m_config
    /\ gr["miners"].runs = MaxTicks + 1
    /\ gr["miners"].errs = 0
    /\ file.obj["custom"] = Obj(2) /\ file.obj["title"] = Str("B")

\* the UpdateConfig of t has returned an error
MergeFailed(t) == cth[t].op = "merge" /\ cth[t].pc = "ret" /\ cth[t].err # ""

\* C33: an UpdateConfig that returns an error has left the file alone: its
\* os.WriteFile has neither replaced the file's content nor truncated it
C33_FailedMergeLeavesFile ==
    \A t \in CfgThreads : MergeFailed(t) => (~cth[t].wrote /\ lastWriter # t)

\* a form that one of the handler's checks must turn away: wrong method,
\* undecodable body, no title, authentication without username and
\* password or with a key that is not 32 characters long, no device
FailsValidation(f) ==
    \/ f.method # "POST"
    \/ ~f.decodes
    \/ f.Title = ""
    \/ f.EnableAuth /\ (f.Username = "" \/ f.Password = "" \/ f.JWTKeyLen # 32)
    \/ f.devices = 0

\* the submission has reached HandleBootstrapSubmit
Handled(s) == sub[s].pc \notin {"idle", "routed"} /\ sub[s].resp # 404

\* C34: a submission that fails validation is answered 400 or 405 at once
\* and creates or changes none of config.json, access.json and
\* jsonWebTokenKey.json; as long as every submission handled so far failed
\* validation the three files are missing, the gate is in bootstrap mode
\* and no request has promoted it or been routed to the normal handler
C34_RejectedSubmissionWritesNothing ==
    /\ \A s \in Subs : (Handled(s) /\ FailsValidation(sub[s].form)) =>
          /\ sub[s].pc = "done"
          /\ sub[s].resp \in {400, 405}
          /\ sub[s].wrote = {}
    /\ (\A s \in Subs : Handled(s) => FailsValidation(sub[s].form)) =>
          /\ file = MissingFile /\ accessFile = "missing" /\ jwtFile = "missing"
          /\ isBootstrapMode
          /\ \A r \in Reqs : ~req[r].inited /\ req[r].resp \in {"", "bootstrap"}

\* C34 witness: a form without a device and a form whose key has 31
\* characters were both turned away, and a request that came later was
\* served by the bootstrap handler
C34_Witness ==
    /\ \E s, u \in Subs :
          /\ sub[s].pc = "done" /\ sub[s].form.devices = 0 /\ sub[s].form.Title = "A"
          /\ sub[s].resp = 400
          /\ sub[u].pc = "done" /\ sub[u].form.EnableAuth /\ sub[u].form.JWTKeyLen = 31
          /\ sub[u].resp = 400
    /\ \A r \in Reqs : req[r].pc = "done" /\ req[r].resp = "bootstrap"

\* C35: whenever a submission has been answered success, config.json,
\* access.json and jsonWebTokenKey.json all exist
C35_SuccessMeansAllArtifacts ==
    \A s \in Subs : (sub[s].pc = "done" /\ sub[s].resp = 200) => CheckConfigFilesExist

\* the peer's fetch succeeded in full: status 200 and a body that decodes
\* for a device or a pool, both RPC calls for a node
FetchSucceeded(k, a) ==
    IF k = "nodes" THEN a.fetch = "ok" ELSE a.fetch \in HttpAnswers \ FailedAnswers

\* the step is a poll of task k's current peer
Polls(k) == gr[k].pc = "collect" /\ gr'[k].pc # "collect"

\* C36: a run of a collection task polls each entry of its peer list once,
\* a poll inserts at most one record, for the peer polled, and inserts it
\* only when that peer's fetch succeeded in full; nothing else inserts
C36_OneRecordPerSuccessfulPeer ==
    [][/\ \A k \in TaskNames : Polls(k) =>
             LET p == gr[k].peers[gr[k].i]
             IN /\ gr[k].i \in 1..Len(gr[k].peers)
                /\ gr'[k].i = gr[k].i + 1
                /\ \A q \in SchedPeers \ {p} : sink'[q] = sink[q]
                /\ sink'[p] \in {sink[p], sink[p] + 1}
                /\ sink'[p] = sink[p] + 1 => FetchSucceeded(k, gr'[k].ans)
       /\ (\A k \in TaskNames : ~Polls(k)) => sink' = sink
       /\ \A k \in TaskNames :
             (gr'[k].runs = gr[k].runs /\ Alive(k)) => gr'[k].i >= gr[k].i]_vars

\* C36 witness: the node task's first run inserted the node's record; in
\* the run of the next tick the node's second RPC call failed and the
\* record count is still one
C36_Witness ==
    /\ gr["nodes"].runs = MaxTicks + 1
    /\ gr["nodes"].pc = "peer"
    /\ gr["nodes"].ans.fetch = "getnetworkinfo"
    /\ gr["nodes"].peers = <<"n1">>
    /\ sink["n1"] = 1

NormalMode == ~isBootstrapMode /\ normalHandler # NoHandler

\* C38: whenever the server is in normal mode and the configuration in
\* force has data_collection_enabled true, the scheduler is running: after
\* a start in normal mode, after the promotion from bootstrap mode and
\* after a hot update that enables data collection
C38_EnabledMeansRunning ==
    (NormalMode /\ CurrentConfig.DataCollectionEnabled) => IsRunning

\* C39: in every fan-out round the result channel is closed once and only
\* after every producer has sent its outcome, no producer sends on a closed
\* channel, and the round completes: the consumer's drain ends and the
\* response is written, for every number of peers, zero included
C39_ClosedOnceAfterAllSent ==
    /\ [][/\ chanClosed' # chanClosed =>
                (~chanClosed /\ \A p \in FanPeers : gState[p].pc = "done")
          /\ \A p \in FanPeers :
                (gState[p].pc = "running" /\ gState'[p].pc # "running") => ~chanClosed]_vars
    /\ <>(fanPc = "done" /\ chan = <<>> /\ Len(results) = Cardinality(FanPeers))

====
